---- MODULE Spec2Model ----
(***************************************************************************)
(* Model of the formula compiler of utils/formula.py and of the rewriting  *)
(* of the check conditions in utils/check_view.py.                         *)
(*                                                                         *)
(* A Python str is modelled as a sequence of characters; a character is a  *)
(* one-element TLA+ string.  Characters outside ASCII are written by their *)
(* code point ("u5927" is U+5927).  Every function of the module is a pure *)
(* function of its arguments, except for the list arguments it sorts in    *)
(* place; the state machine records one call: the operation (op), its      *)
(* arguments as they were passed (arg), what it returned or raised (ret)   *)
(* and the elements of the caller's list argument after the call (heap).   *)
(***************************************************************************)
EXTENDS Integers, Sequences, FiniteSets, TLC

VARIABLES op, arg, ret, heap

vars == <<op, arg, ret, heap>>

(***************************************************************************)
(* Characters outside ASCII used by the source.                            *)
(***************************************************************************)
cDA    == "u5927"  \* da   "greater"      (first char of 'greater than')
cYU    == "u4E8E"  \* yu   "than"
cXIAO  == "u5C0F"  \* xiao "less"
cDENG  == "u7B49"  \* deng "equal"
cWAI   == "u5916"  \* wai  "outside"
cNEI   == "u5185"  \* nei  "inside"
cZUO   == "u5DE6"  \* zuo  "left"
cYOU   == "u53F3"  \* you  "right"
cBAO   == "u5305"  \* bao  "include"
cHAN   == "u542B"  \* han  "contain"
cBEN   == "u672C"  \* ben  "this"
cDANG  == "u5F53"  \* dang "current"
cQI    == "u671F"  \* qi   "period"
cSHANG == "u4E0A"  \* shang "previous"
cXIA   == "u4E0B"  \* xia  "next"
cNIAN  == "u5E74"  \* nian "year"
cJI    == "u5B63"  \* ji   "quarter"
cYUE   == "u6708"  \* yue  "month"
cMO    == "u672B"  \* mo   "end"
cDEG   == "u00B0"  \* the degree sign, the year-end shift operator
cFWLP  == "uFF08"  \* full-width (
cFWRP  == "uFF09"  \* full-width )
cFWCOM == "uFF0C"  \* full-width ,
cFWLB  == "uFF3B"  \* full-width [
cFWRB  == "uFF3D"  \* full-width ]
cFWBAR == "uFF5C"  \* full-width |
cLE    == "u2264"  \* less-than-or-equal sign
cINF   == "u221E"  \* the infinity sign
cFWSP  == "u3000"  \* the ideographic (full-width) space

(***************************************************************************)
(* What a call returns: a value, or the exception it raised.               *)
(***************************************************************************)
Ok(v)  == [ok |-> TRUE,  val |-> v,    err |-> "none"]
Err(e) == [ok |-> FALSE, val |-> <<>>, err |-> e]
\* an exception with its message
Raise(e, msg) == [ok |-> FALSE, val |-> <<>>, err |-> e, msg |-> msg]

(***************************************************************************)
(* Python's str operations on sequences of characters.                     *)
(***************************************************************************)
\* s[i:i+len(t)] == t
MatchAt(s, t, i) ==
    /\ i + Len(t) - 1 <= Len(s)
    /\ \A k \in 1..Len(t) : s[i + k - 1] = t[k]

\* t in s
Contains(s, t) == \E i \in 1..(Len(s) - Len(t) + 1) : MatchAt(s, t, i)

\* s.replace(old, new): every non-overlapping occurrence, left to right
RECURSIVE ReplaceFrom(_, _, _, _)
ReplaceFrom(s, old, new, i) ==
    IF i > Len(s) THEN <<>>
    ELSE IF MatchAt(s, old, i)
         THEN new \o ReplaceFrom(s, old, new, i + Len(old))
         ELSE <<s[i]>> \o ReplaceFrom(s, old, new, i + 1)

Replace(s, old, new) == ReplaceFrom(s, old, new, 1)

\* s.split(sep) for a one-character sep: len = count(sep) + 1, empty parts kept
RECURSIVE SplitFrom(_, _, _, _)
SplitFrom(s, sep, i, cur) ==
    IF i > Len(s) THEN <<cur>>
    ELSE IF s[i] = sep
         THEN <<cur>> \o SplitFrom(s, sep, i + 1, <<>>)
         ELSE SplitFrom(s, sep, i + 1, Append(cur, s[i]))

Split(s, sep) == SplitFrom(s, sep, 1, <<>>)

\* sep.join(parts)
RECURSIVE Join(_, _)
Join(parts, sep) ==
    IF Len(parts) = 0 THEN <<>>
    ELSE IF Len(parts) = 1 THEN parts[1]
    ELSE parts[1] \o sep \o Join(Tail(parts), sep)

\* ''.join(parts)
Concat(parts) == Join(parts, <<>>)

\* the strings made of 1..n pieces of a set of strings
RECURSIVE PieceStrings(_, _)
PieceStrings(pieces, n) ==
    IF n = 0 THEN {<<>>}
    ELSE LET shorter == PieceStrings(pieces, n - 1)
         IN  shorter \cup {s \o p : s \in shorter, p \in pieces}

(***************************************************************************)
(* The fixed lexical tables.                                               *)
(***************************************************************************)
_formula_comparision_operators == <<
    <<"=", "=">>, <<"!", "=">>, <<"<", "=">>, <<">", "=">>, <<"<">>, <<">">>,
    <<".", "i", "s", "n", "a", "(", ")">>,
    <<".", "i", "s", "n", "u", "l", "l", "(", ")">>,
    <<".", "n", "o", "t", "n", "a", "(", ")">>,
    <<".", "n", "o", "t", "n", "u", "l", "l", "(", ")">>,
    <<".", "i", "s", "i", "n">>,
    <<".", "s", "t", "r", ".", "c", "o", "n", "t", "a", "i", "n", "s">> >>

\* the five values of '_type' (the source spells them in Chinese)
Compute         == "Compute"          \* ji suan
FixedParamJudge == "FixedParamJudge"  \* ding can pan duan
TimeCalc        == "TimeCalc"         \* shi jian ji suan
Stats           == "Stats"            \* tong ji
FreeParamJudge  == "FreeParamJudge"   \* bu ding can pan duan

Kinds == {Compute, FixedParamJudge, TimeCalc, Stats, FreeParamJudge}

_formula_special_heads == [
    Stats    |-> {<<"c", "o", "u", "n", "t">>, <<"s", "u", "m">>,
                  <<"m", "e", "a", "n">>,
                  <<"q", "u", "a", "n", "t", "i", "l", "e">>},
    TimeCalc |-> {<<"y", "e", "a", "r">>, <<"Y">>,
                  <<"q", "u", "a", "r", "t", "e", "r">>, <<"Q">>,
                  <<"m", "o", "n", "t", "h">>, <<"M">>,
                  <<"d", "a", "y">>, <<"D">>} ]

\* _formula_head_mapper with the two groups of heads exchanged
_formula_head_mapper_Exchanged(head) ==
    IF head \in _formula_special_heads.Stats THEN TimeCalc
    ELSE IF head \in _formula_special_heads.TimeCalc THEN Stats
    ELSE FreeParamJudge

\* _formula_head_mapper.get(head, FreeParamJudge)
_formula_head_mapper(head) ==
    IF head \in _formula_special_heads.Stats THEN Stats
    ELSE IF head \in _formula_special_heads.TimeCalc THEN TimeCalc
    ELSE FreeParamJudge

(***************************************************************************)
(* verify_pythonic_formula: strip every comparison operator, in the order  *)
(* of the table, then look for a remaining '=' or '<>'.                    *)
(***************************************************************************)
RECURSIVE StripSigns(_, _)
StripSigns(formula, k) ==
    IF k > Len(_formula_comparision_operators) THEN formula
    ELSE StripSigns(Replace(formula, _formula_comparision_operators[k], <<>>), k + 1)

verify_pythonic_formula(formula) ==
    LET stripped == StripSigns(formula, 1)
    IN  ~Contains(stripped, <<"=">>) /\ ~Contains(stripped, <<"<", ">">>)

(***************************************************************************)
(* _parse_formula: split on ';' and ',', classify, build the dictionary.   *)
(***************************************************************************)
\* any([sign in formula for sign in _formula_comparision_operators])
HasComparison(formula) ==
    \E k \in DOMAIN _formula_comparision_operators :
        Contains(formula, _formula_comparision_operators[k])

\* the text of the assertion messages of lines 145 and 150 before the formula
CommaMessage ==
    <<"u516C", "u5F0F", "u62C6", "u89E3", "u5668", "uFF1A", "u5355", "u4E00",
      "u8BA1", "u7B97", "u516C", "u5F0F", "u4E2D", "u5B58", "u5728", "u201C",
      ",", "u201D", "uFF0C", "u8BF7", "u68C0", "u67E5", ":", " ">>
VerifyMessage ==
    <<"u516C", "u5F0F", "u62C6", "u89E3", "u5668", "uFF1A", "u5355", "u4E00",
      "u5B9A", "u53C2", "u5224", "u65AD", "u516C", "u5F0F", "u4E2D", "u5B58",
      "u5728", "u4E0D", "u89C4", "u8303", "u7684", "u5355", "u7B49", "u53F7",
      "u6216", "<", ">", "uFF0C", "u8BF7", "u68C0", "u67E5", ":", " ">>

\* f'...: \n{formula}\n'
WithFormula(message, formula) == message \o <<"\n">> \o formula \o <<"\n">>

\* the message of the IndexError Python raises for a list
IndexMessage ==
    <<"l", "i", "s", "t", " ", "i", "n", "d", "e", "x", " ", "o", "u", "t",
      " ", "o", "f", " ", "r", "a", "n", "g", "e">>

\* ParseSingle with the two single-formula kinds exchanged
ParseSingle_KindsSwapped(formula) ==
    IF Contains(formula, <<",">>)
    THEN Raise("AssertionError", WithFormula(CommaMessage, formula))
    ELSE IF HasComparison(formula)
         THEN IF verify_pythonic_formula(formula)
              THEN Ok([_type |-> Compute, formula |-> formula])
              ELSE Raise("AssertionError", WithFormula(VerifyMessage, formula))
         ELSE Ok([_type |-> FixedParamJudge, formula |-> formula])

\* ParseSingle without the assertion on ','
ParseSingle_CommaAllowed(formula) ==
    IF HasComparison(formula)
    THEN IF verify_pythonic_formula(formula)
         THEN Ok([_type |-> FixedParamJudge, formula |-> formula])
         ELSE Raise("AssertionError", WithFormula(VerifyMessage, formula))
    ELSE Ok([_type |-> Compute, formula |-> formula])

\* ParseSingle without the assertion on the verifier's answer
ParseSingle_Unverified(formula) ==
    IF Contains(formula, <<",">>)
    THEN Raise("AssertionError", WithFormula(CommaMessage, formula))
    ELSE IF HasComparison(formula)
         THEN Ok([_type |-> FixedParamJudge, formula |-> formula])
         ELSE Ok([_type |-> Compute, formula |-> formula])

\* the single-formula branch (no ';')
ParseSingle(formula) ==
    IF Contains(formula, <<",">>)
    THEN Raise("AssertionError", WithFormula(CommaMessage, formula))
    ELSE IF HasComparison(formula)
         THEN IF verify_pythonic_formula(formula)
              THEN Ok([_type |-> FixedParamJudge, formula |-> formula])
              ELSE Raise("AssertionError", WithFormula(VerifyMessage, formula))
         ELSE Ok([_type |-> Compute, formula |-> formula])

\* [substr.split(',') for substr in formula.split(';')]
ClauseTable(formula) ==
    LET clauses == Split(formula, ";")
    IN  [i \in 1..Len(clauses) |-> Split(clauses[i], ",")]

\* f_dict['formula'] of a time calculation
TimeCalcFormula(f_list) == f_list[2][1]

\* StatsFormula without the unpacked group keys
StatsFormula_NoGroupKeys(stats_field, group_keys, condition) ==
    Join(<<stats_field, condition>>, <<",">>)

\* f_dict['formula'] of a statistic
StatsFormula(stats_field, group_keys, condition) ==
    Join(<<stats_field>> \o group_keys \o <<condition>>, <<",">>)

\* f_dict['formula'] of a free-parameter judgement
FreeParamFormula(f_head, dimension_names) ==
    f_head \o <<"+">> \o Join(dimension_names, <<"*">>)

\* the parametrised branch (';' in formula)
ParseClauses(formula) ==
    LET f_list == ClauseTable(formula)
        f_head == f_list[1][1]
        f_type == _formula_head_mapper(f_head)
    IN  CASE f_type = TimeCalc ->
               Ok([_type |-> f_type, time_unit |-> f_head,
                   formula |-> TimeCalcFormula(f_list)])
          [] f_type = Stats ->
               IF Len(f_list) < 3 THEN Raise("IndexError", IndexMessage)
               ELSE LET stats_field == IF Len(f_list[1]) > 1
                                       THEN Join(Tail(f_list[1]), <<",">>)
                                       ELSE <<>>
                        group_keys == f_list[2]
                        condition == f_list[3][1]
                    IN  Ok([_type |-> f_type, stats_method |-> f_head,
                            stats_field |-> stats_field,
                            group_keys |-> group_keys,
                            condition |-> condition,
                            add_condition |-> condition,
                            formula |-> StatsFormula(stats_field, group_keys, condition)])
          [] f_type = FreeParamJudge ->
               IF Len(f_list[1]) < 2 THEN Raise("IndexError", IndexMessage)
               ELSE Ok([_type |-> f_type, target |-> f_head,
                        direction |-> f_list[1][2],
                        dimension_names |-> f_list[2],
                        formula |-> FreeParamFormula(f_head, f_list[2])])

_parse_formula(formula) ==
    IF ~Contains(formula, <<";">>) THEN ParseSingle(formula)
    ELSE ParseClauses(formula)

(***************************************************************************)
(* Formulas given to the classifier and the verifier.                      *)
(***************************************************************************)
MaxPieces  == 4   \* pieces of a single-clause formula
MaxClauses == 3   \* clauses of a parametrised formula
MaxTokens  == 2   \* tokens of one clause

\* the sequences over S of length lo..hi
RECURSIVE SeqsUpTo(_, _)
SeqsUpTo(S, n) ==
    IF n = 0 THEN {<<>>}
    ELSE LET shorter == SeqsUpTo(S, n - 1)
         IN  shorter \cup {Append(s, x) : s \in shorter, x \in S}

SeqsBetween(S, lo, hi) == {s \in SeqsUpTo(S, hi) : Len(s) >= lo}

SinglePieces == {<<"a">>, <<"=">>, <<"<">>, <<">">>, <<"!">>, <<",">>,
                 <<".", "i", "s", "n", "a", "(", ")">>}

SingleFormulas == PieceStrings(SinglePieces, MaxPieces)

HeadTokens == {<<"Y">>, <<"s", "u", "m">>, <<"a">>, <<"m", "e", "a", "n">>, <<"Y", "a">>}
ArgTokens  == {<<"b">>, <<"c">>}

ClauseTables ==
    {<<(<<h>> \o first)>> \o rest :
        h \in HeadTokens,
        first \in SeqsUpTo(ArgTokens, MaxTokens - 1),
        rest \in SeqsBetween(SeqsBetween(ArgTokens, 1, MaxTokens), 1, MaxClauses - 1)}

\* the text of a clause table: tokens joined by ',', clauses by ';'
TableText(table) ==
    Join([i \in 1..Len(table) |-> Join(table[i], <<",">>)], <<";">>)

ClauseFormulas == {TableText(t) : t \in ClauseTables}

Formulas == SingleFormulas \cup ClauseFormulas

(***************************************************************************)
(* The calls.                                                              *)
(***************************************************************************)
Init == op = "idle" /\ arg = <<>> /\ ret = <<>> /\ heap = <<>>

Call_verify_pythonic_formula ==
    /\ op = "idle"
    /\ \E formula \in SingleFormulas :
         /\ arg' = [formula |-> formula]
         /\ ret' = Ok(verify_pythonic_formula(formula))
    /\ op' = "verify_pythonic_formula"
    /\ heap' = <<>>

Call_parse_formula ==
    /\ op = "idle"
    /\ \E formula \in Formulas :
         /\ arg' = [formula |-> formula]
         /\ ret' = _parse_formula(formula)
    /\ op' = "_parse_formula"
    /\ heap' = <<>>

NextFormula == Call_verify_pythonic_formula \/ Call_parse_formula

SpecFormula == Init /\ [][NextFormula]_vars

(***************************************************************************)
(* C1.  The comparison verifier.                                           *)
(***************************************************************************)
\* the SQL-style not-equals occurs in the formula
UsesSqlNotEquals(formula) == Contains(formula, <<"<", ">">>)

\* an '=' that is part of none of '==', '!=', '<=', '>='
UsesSingleEquals(formula) ==
    \E i \in 1..Len(formula) :
        /\ formula[i] = "="
        /\ (i = 1 \/ formula[i - 1] \notin {"=", "!", "<", ">"})
        /\ (i = Len(formula) \/ formula[i + 1] # "=")

\* read left to right, taking a two-character form wherever one starts, the
\* formula leaves no '=' over
RECURSIVE ReadsAsTwoCharacterForms(_, _)
ReadsAsTwoCharacterForms(formula, i) ==
    IF i > Len(formula) THEN TRUE
    ELSE IF \E k \in 1..4 : MatchAt(formula, _formula_comparision_operators[k], i)
         THEN ReadsAsTwoCharacterForms(formula, i + 2)
         ELSE formula[i] # "=" /\ ReadsAsTwoCharacterForms(formula, i + 1)

\* every comparison of the formula uses a permitted form
UsesOnlyPermittedForms(formula) ==
    ~UsesSqlNotEquals(formula) /\ ReadsAsTwoCharacterForms(formula, 1)

\* C1: verify_pythonic_formula is true for a formula whose comparisons all use
\* the two-character forms, and false for every formula that uses a single '='
\* or the SQL-style '<>'.
C1_VerifierRejectsSingleEqualsAndSqlNotEquals ==
    op = "verify_pythonic_formula" =>
        /\ UsesSingleEquals(arg.formula) => ret.val = FALSE
        /\ UsesSqlNotEquals(arg.formula) => ret.val = FALSE
        /\ UsesOnlyPermittedForms(arg.formula) => ret.val = TRUE

\* the parts of C1 the code does satisfy
C1_SingleEqualsRejected ==
    op = "verify_pythonic_formula" =>
        /\ UsesSingleEquals(arg.formula) => ret.val = FALSE
        /\ UsesOnlyPermittedForms(arg.formula) => ret.val = TRUE

(***************************************************************************)
(* C4.  Classification.                                                    *)
(***************************************************************************)
\* C4 as stated: every formula is given exactly one of the five kinds, and a
\* formula with no ';' and no comparison operator is Compute.
C4_ClassificationTotal ==
    op = "_parse_formula" =>
        /\ ret.ok
        /\ ret.val._type \in Kinds
        /\ (~Contains(arg.formula, <<";">>) /\ ~HasComparison(arg.formula))
              => ret.val._type = Compute

\* C4 amended: every formula _parse_formula returns a result for is given exactly
\* one of the five kinds, and a formula with no ';', no ',' and no comparison
\* operator is returned as Compute.
C4_ClassifiedWhenAccepted ==
    op = "_parse_formula" =>
        /\ ret.ok => ret.val._type \in Kinds
        /\ ( /\ ~Contains(arg.formula, <<";">>)
             /\ ~Contains(arg.formula, <<",">>)
             /\ ~HasComparison(arg.formula) )
              => (ret.ok /\ ret.val._type = Compute)

C4_Witness ==
    /\ op = "_parse_formula"
    /\ arg.formula = <<"a", "!", "a">>
    /\ ret.ok
    /\ ret.val._type = Compute

(***************************************************************************)
(* C6.  The synthesized 'formula'.                                         *)
(***************************************************************************)
FieldNames == ArgTokens \cup {<<"a">>}

\* the (clause, position) pairs of the arguments: every token but the head
ArgumentPlaces(f_list) ==
    {<<i, j>> \in (1..Len(f_list)) \X (1..(MaxTokens + 1)) :
        j <= Len(f_list[i]) /\ <<i, j>> # <<1, 1>>}

IntV(n) == [t |-> "int",  n |-> n, s |-> <<>>]
StrV(s) == [t |-> "str",  n |-> 0, s |-> s]
NoneV   == [t |-> "none", n |-> 0, s |-> <<>>]

\* pd.isna(v)
IsNa(v) == v.t = "none"

\* bool(v) == False
IsFalsy(v) ==
    \/ v.t = "none"
    \/ v.t = "int" /\ v.n = 0
    \/ v.t = "str" /\ v.s = <<>>

Digits == <<"0", "1", "2", "3", "4", "5", "6", "7", "8", "9">>

\* str(n) of a natural number
RECURSIVE NatToStr(_)
NatToStr(n) ==
    IF n < 10 THEN <<Digits[n + 1]>>
    ELSE NatToStr(n \div 10) \o <<Digits[(n % 10) + 1]>>

\* str(n) of an int
IntToStr(n) == IF n < 0 THEN <<"-">> \o NatToStr(-n) ELSE NatToStr(n)

\* f"{v}"
Format(v) ==
    CASE v.t = "int"  -> IntToStr(v.n)
      [] v.t = "str"  -> v.s
      [] v.t = "none" -> <<"N", "o", "n", "e">>

(***************************************************************************)
(* gen_compare_formula                                                     *)
(***************************************************************************)
GreaterThan == <<cDA, cYU>>
LessThan    == <<cXIAO, cYU>>
GreaterThanOrEqual == <<cDA, cYU, cDENG, cYU>>
LessThanOrEqual    == <<cXIAO, cYU, cDENG, cYU>>
Outside      == <<cWAI>>
Inside       == <<cNEI>>
LeftInclude  == <<cZUO, cBAO>>
RightInclude == <<cYOU, cBAO>>

\* the single-threshold branch of gen_compare_formula
CompareSingle(code, method, th1) ==
    IF method \in {GreaterThan, <<">">>} THEN Ok(code \o <<">">> \o Format(th1))
    ELSE IF method \in {LessThan, <<"<">>} THEN Ok(code \o <<"<">> \o Format(th1))
    ELSE IF method \in {GreaterThanOrEqual, <<">", "=">>}
         THEN Ok(code \o <<">", "=">> \o Format(th1))
    ELSE IF method \in {LessThanOrEqual, <<"<", "=">>}
         THEN Ok(code \o <<"<", "=">> \o Format(th1))
    ELSE Err("ValueError")

\* thresholds.sort() of a two-element list: a value (the sorted list) or the
\* TypeError of comparing an int with a str or with None
SortPair(thresholds) ==
    IF thresholds[1].t = "int" /\ thresholds[2].t = "int"
    THEN Ok(IF thresholds[2].n < thresholds[1].n
            THEN <<thresholds[2], thresholds[1]>>
            ELSE thresholds)
    ELSE IF thresholds[1].t = thresholds[2].t /\ thresholds[1].t = "str"
         THEN Ok(thresholds)
         ELSE Err("TypeError")

\* CompareOrder without the sort
CompareOrder_Unsorted(thresholds) == Ok(thresholds)

\* the order of the two thresholds when they are rendered
CompareOrder(thresholds) ==
    IF thresholds[1].t # "str" THEN SortPair(thresholds) ELSE Ok(thresholds)

\* the two-threshold branch of gen_compare_formula
ComparePair(code, method, thresholds) ==
    LET ordered == CompareOrder(thresholds)
    IN  IF ~ordered.ok THEN ordered
        ELSE LET th1 == ordered.val[1]
                 th2 == ordered.val[2]
                 left_eq  == IF Contains(method, LeftInclude)  THEN <<"=">> ELSE <<>>
                 right_eq == IF Contains(method, RightInclude) THEN <<"=">> ELSE <<>>
             IN  IF Contains(method, Outside)
                 THEN Ok(code \o <<"<">> \o left_eq \o Format(th1) \o <<" ", "|", " ">>
                         \o code \o <<">">> \o right_eq \o Format(th2))
                 ELSE IF Contains(method, Inside)
                 THEN Ok(code \o <<">">> \o left_eq \o Format(th1) \o <<" ", "&", " ">>
                         \o code \o <<"<">> \o right_eq \o Format(th2))
                 ELSE Err("ValueError")

\* the test that reduces the thresholds to the first one; the list handed to
\* any() is built whole, so thresholds[1] is read whatever the method is
DegradesToSingle(method, thresholds) ==
    \/ Contains(method, GreaterThan)
    \/ Contains(method, LessThan)
    \/ method \in {<<">">>, <<"<">>, <<">", "=">>, <<"<", "=">>}
    \/ IsNa(thresholds[2])
    \/ IsFalsy(thresholds[2])

\* thresholds is [list |-> whether a list was passed, items |-> its elements (the
\* scalar itself for a str or an int)]
gen_compare_formula(code, method, thresholds) ==
    LET ths == thresholds.items
    IN  IF Len(ths) \notin {1, 2} THEN Err("AssertionError")
        ELSE IF Len(ths) < 2 THEN Err("IndexError")
        ELSE IF DegradesToSingle(method, ths)
             THEN CompareSingle(code, method, ths[1])
             ELSE ComparePair(code, method, ths)

\* the caller's list after thresholds.sort(): sorted, or as it was when the
\* comparison of its two elements raised
SortedInPlace(thresholds) ==
    IF SortPair(thresholds).ok THEN SortPair(thresholds).val ELSE thresholds

\* the elements of the caller's list after gen_compare_formula: line 506 binds
\* a new list, line 522 sorts the list that was passed
gen_compare_formula_heap(method, thresholds) ==
    LET ths == thresholds.items
    IN  IF ~thresholds.list THEN <<>>
        ELSE IF Len(ths) # 2 THEN ths
        ELSE IF DegradesToSingle(method, ths) THEN ths
        ELSE IF ths[1].t # "str" THEN SortedInPlace(ths)
        ELSE ths

\* the single-threshold branch of config2range
RangeSingle(method, th1) ==
    IF method \in {GreaterThan, <<">">>}
    THEN Ok(<<"(">> \o Format(th1) \o <<",", " ", "+", cINF, ")">>)
    ELSE IF method \in {LessThan, <<"<">>}
    THEN Ok(<<"(", "-", cINF, ",", " ">> \o Format(th1) \o <<")">>)
    ELSE IF method \in {GreaterThanOrEqual, <<">", "=">>}
    THEN Ok(<<"[">> \o Format(th1) \o <<",", " ", "+", cINF, ")">>)
    ELSE IF method \in {LessThanOrEqual, <<"<", "=">>}
    THEN Ok(<<"(", "-", cINF, ",", " ">> \o Format(th1) \o <<"]">>)
    ELSE Err("ValueError")

\* RangePair with the brackets of the two qualifiers exchanged
RangePair_QualifiersExchanged(method, thresholds) ==
    LET ordered == SortPair(thresholds)
    IN  IF ~ordered.ok THEN ordered
        ELSE LET th1 == ordered.val[1]
                 th2 == ordered.val[2]
                 left  == Contains(method, RightInclude)
                 right == Contains(method, LeftInclude)
             IN  IF Contains(method, Outside)
                 THEN Ok(<<"(", "-", cINF, ",", " ">> \o Format(th1)
                         \o (IF left THEN <<"]">> ELSE <<")">>) \o <<"|">>
                         \o (IF right THEN <<"[">> ELSE <<"(">>)
                         \o Format(th2) \o <<",", " ", "+", cINF, ")">>)
                 ELSE IF Contains(method, Inside)
                 THEN Ok((IF left THEN <<"[">> ELSE <<"(">>) \o Format(th1)
                         \o <<",", " ">> \o Format(th2)
                         \o (IF right THEN <<"]">> ELSE <<")">>))
                 ELSE Err("ValueError")

\* the two-threshold branch of config2range
RangePair(method, thresholds) ==
    LET ordered == SortPair(thresholds)
    IN  IF ~ordered.ok THEN ordered
        ELSE LET th1 == ordered.val[1]
                 th2 == ordered.val[2]
                 left  == Contains(method, LeftInclude)
                 right == Contains(method, RightInclude)
             IN  IF Contains(method, Outside)
                 THEN Ok(<<"(", "-", cINF, ",", " ">> \o Format(th1)
                         \o (IF left THEN <<"]">> ELSE <<")">>) \o <<"|">>
                         \o (IF right THEN <<"[">> ELSE <<"(">>)
                         \o Format(th2) \o <<",", " ", "+", cINF, ")">>)
                 ELSE IF Contains(method, Inside)
                 THEN Ok((IF left THEN <<"[">> ELSE <<"(">>) \o Format(th1)
                         \o <<",", " ">> \o Format(th2)
                         \o (IF right THEN <<"]">> ELSE <<")">>))
                 ELSE Err("ValueError")

\* thresholds is a list of numbers (or None)
config2range(method, thresholds) ==
    LET ths == thresholds.items
    IN  IF Len(ths) \notin {1, 2} THEN Err("AssertionError")
        ELSE IF Len(ths) = 1 THEN RangeSingle(method, ths[1])
        ELSE RangePair(method, ths)

\* the elements of the caller's list after config2range: line 475 sorts it
config2range_heap(thresholds) ==
    IF Len(thresholds.items) = 2 THEN SortedInPlace(thresholds.items)
    ELSE thresholds.items

(***************************************************************************)
(* The arguments given to gen_compare_formula.                             *)
(***************************************************************************)
MaxThresholds == 3   \* the longest thresholds list

Codes == {<<"x">>}

SingleMethods == {GreaterThan, <<">">>, LessThan, <<"<">>,
                  GreaterThanOrEqual, <<">", "=">>, LessThanOrEqual, <<"<", "=">>}

Qualifiers == {<<>>, LeftInclude, RightInclude \o <<cHAN>>,
               LeftInclude \o RightInclude}

PairMethods == {base \o q : base \in {Outside, Inside}, q \in Qualifiers}

\* 'equal': a method the function does not know
UnknownMethod == <<cDENG, cYU>>

Methods == SingleMethods \cup PairMethods \cup {UnknownMethod}

ThresholdValues ==
    {IntV(n) : n \in {-10, 0, 1, 9}} \cup {StrV(<<>>), StrV(<<"b">>), NoneV}

ThresholdArgs ==
    {[list |-> TRUE, items |-> l] : l \in SeqsUpTo(ThresholdValues, MaxThresholds)}
    \cup {[list |-> FALSE, items |-> <<v>>] : v \in ThresholdValues \ {NoneV}}

\* the lists given to config2range: numbers and None
RangeThresholdArgs ==
    {[list |-> TRUE, items |-> l] :
        l \in SeqsUpTo({v \in ThresholdValues : v.t # "str"}, MaxThresholds)}

Call_gen_compare_formula ==
    /\ op = "idle"
    /\ \E code \in Codes, method \in Methods, thresholds \in ThresholdArgs :
         /\ arg' = [code |-> code, method |-> method, thresholds |-> thresholds]
         /\ ret' = gen_compare_formula(code, method, thresholds)
         /\ heap' = gen_compare_formula_heap(method, thresholds)
    /\ op' = "gen_compare_formula"

Call_config2range ==
    /\ op = "idle"
    /\ \E method \in Methods, thresholds \in RangeThresholdArgs :
         /\ arg' = [code |-> <<>>, method |-> method, thresholds |-> thresholds]
         /\ ret' = config2range(method, thresholds)
         /\ heap' = config2range_heap(thresholds)
    /\ op' = "config2range"

NextCompare == Call_gen_compare_formula \/ Call_config2range

SpecCompare == Init /\ [][NextCompare]_vars

(***************************************************************************)
(* C2.  One threshold.                                                     *)
(***************************************************************************)
\* the operator a single-threshold method stands for
SingleOperator(method) ==
    CASE method \in {GreaterThan, <<">">>} -> <<">">>
      [] method \in {LessThan, <<"<">>} -> <<"<">>
      [] method \in {GreaterThanOrEqual, <<">", "=">>} -> <<">", "=">>
      [] method \in {LessThanOrEqual, <<"<", "=">>} -> <<"<", "=">>

\* C2: with a single-threshold method, a thresholds list of exactly one value
\* gives code + operator + threshold, and so does a two-element list whose
\* second threshold is empty, falsy or null.
C2_SingleThresholdRendered ==
    ( /\ op = "gen_compare_formula"
      /\ arg.method \in SingleMethods
      /\ arg.thresholds.list
      /\ \/ Len(arg.thresholds.items) = 1
         \/ Len(arg.thresholds.items) = 2 /\ IsFalsy(arg.thresholds.items[2])
      /\ ~IsNa(arg.thresholds.items[1]) )
    => ret = Ok(arg.code \o SingleOperator(arg.method)
                         \o Format(arg.thresholds.items[1]))

\* the part of C2 the code satisfies: the two-element list
C2_SecondThresholdIgnored ==
    ( /\ op = "gen_compare_formula"
      /\ arg.method \in SingleMethods
      /\ Len(arg.thresholds.items) = 2 /\ IsFalsy(arg.thresholds.items[2]) )
    => ret = Ok(arg.code \o SingleOperator(arg.method)
                         \o Format(arg.thresholds.items[1]))

(***************************************************************************)
(* C3.  Two thresholds.                                                    *)
(***************************************************************************)
\* '=' when the method holds the qualifier
EqIf(method, qualifier) == IF Contains(method, qualifier) THEN <<"=">> ELSE <<>>

Lo(items) == IF items[1].n <= items[2].n THEN items[1].n ELSE items[2].n
Hi(items) == IF items[1].n <= items[2].n THEN items[2].n ELSE items[1].n

\* C3: two non-falsy numeric thresholds are ordered (lo, hi); an 'outside'
\* method gives "code<[=]lo | code>[=]hi", an 'inside' method
\* "code>[=]lo & code<[=]hi", '=' on the lo side exactly with 'left include'
\* and on the hi side exactly with 'right include'.
C3_TwoThresholdsRendered ==
    ( /\ op = "gen_compare_formula"
      /\ arg.method \in PairMethods
      /\ Len(arg.thresholds.items) = 2
      /\ \A i \in 1..2 : /\ arg.thresholds.items[i].t = "int"
                         /\ ~IsFalsy(arg.thresholds.items[i]) )
    => LET code == arg.code
           lo == IntToStr(Lo(arg.thresholds.items))
           hi == IntToStr(Hi(arg.thresholds.items))
           l  == EqIf(arg.method, LeftInclude)
           r  == EqIf(arg.method, RightInclude)
       IN  /\ Contains(arg.method, Outside) =>
                ret = Ok(code \o <<"<">> \o l \o lo \o <<" ", "|", " ">>
                         \o code \o <<">">> \o r \o hi)
           /\ Contains(arg.method, Inside) =>
                ret = Ok(code \o <<">">> \o l \o lo \o <<" ", "&", " ">>
                         \o code \o <<"<">> \o r \o hi)

\* ("x", outside + left include + right include, [9, 1]) has given "x<=1 | x>=9"
C3_Witness ==
    /\ op = "gen_compare_formula"
    /\ arg.method = Outside \o LeftInclude \o RightInclude
    /\ arg.thresholds.items = <<IntV(9), IntV(1)>>
    /\ ret = Ok(<<"x", "<", "=", "1", " ", "|", " ", "x", ">", "=", "9">>)

(***************************************************************************)
(* clean_formula (the str branch): every key of _formula_unify_mapper that *)
(* occurs in the text is replaced by its value, then ' ' is removed.  The  *)
(* keys are single characters outside ASCII and the values are ASCII, so   *)
(* the order in which the set of keys is walked does not matter.           *)
(***************************************************************************)
\* the pairs (key, value) of _formula_unify_mapper, in the order of the source
_formula_unify_mapper == <<
    <<"uFF5E", <<"~">>>>,
    <<"uFF08", <<"(">>>>,
    <<"uFF09", <<")">>>>,
    <<"uFF0B", <<"+">>>>,
    <<"uFF0D", <<"-">>>>,
    <<"u00D7", <<"*">>>>,
    <<"u00F7", <<"/">>>>,
    <<"uFF0C", <<",">>>>,
    <<"uFF1A", <<":">>>>,
    <<"uFF1B", <<";">>>>,
    <<"uFF1D", <<"=">>>>,
    <<"uFF1C", <<"<">>>>,
    <<"uFF1E", <<">">>>>,
    <<"u2264", <<"<", "=">>>>,
    <<"u2265", <<">", "=">>>>,
    <<"u2260", <<"!", "=">>>>,
    <<"uFF05", <<"%">>>>,
    <<"uFF03", <<"#">>>>,
    <<"uFF06", <<"&">>>>,
    <<"uFF20", <<"@">>>>,
    <<"uFF04", <<"$">>>>,
    <<"uFF0A", <<"*">>>>,
    <<"uFF02", <<"\"">>>>,
    <<"u201C", <<"\"">>>>,
    <<"u201D", <<"\"">>>>,
    <<"uFF07", <<"'">>>>,
    <<"u2018", <<"'">>>>,
    <<"u2019", <<"'">>>>,
    <<"uFF3B", <<"[">>>>,
    <<"uFF3D", <<"]">>>>,
    <<"uFF5B", <<"{">>>>,
    <<"uFF5D", <<"}">>>>,
    <<"uFF5C", <<"|">>>>,
    <<"u3000", <<" ">>>>,
    <<"uFF0F", <<"/">>>> >>

\* _formula_unify_mapper[c] for a key, the character itself otherwise
UnifyChar(c) ==
    IF \E k \in DOMAIN _formula_unify_mapper : _formula_unify_mapper[k][1] = c
    THEN _formula_unify_mapper[
             CHOOSE k \in DOMAIN _formula_unify_mapper : _formula_unify_mapper[k][1] = c][2]
    ELSE <<c>>

\* clean_formula without the removal of the spaces
clean_formula_KeepSpaces(formula) ==
    Concat([i \in 1..Len(formula) |-> UnifyChar(formula[i])])

clean_formula(formula) ==
    Replace(Concat([i \in 1..Len(formula) |-> UnifyChar(formula[i])]), <<" ">>, <<>>)

(***************************************************************************)
(* range2tuple (numeric = False) and range2params                          *)
(***************************************************************************)
\* inclusive_dict with 'left' and 'right' exchanged
inclusive_dict_Exchanged(brackets) ==
    CASE brackets = <<"[", "]">> -> Ok("both")
      [] brackets = <<"[", ")">> -> Ok("right")
      [] brackets = <<"(", "]">> -> Ok("left")
      [] brackets = <<"(", ")">> -> Ok("neither")
      [] OTHER -> Err("KeyError")

inclusive_dict(brackets) ==
    CASE brackets = <<"[", "]">> -> Ok("both")
      [] brackets = <<"[", ")">> -> Ok("left")
      [] brackets = <<"(", "]">> -> Ok("right")
      [] brackets = <<"(", ")">> -> Ok("neither")
      [] OTHER -> Err("KeyError")

range2tuple(range) ==
    LET range_list == Split(clean_formula(range), ",")
    IN  IF Len(range_list) # 2 THEN Err("AssertionError")
        ELSE IF Len(range_list[1]) = 0 \/ Len(range_list[2]) = 0 THEN Err("IndexError")
        ELSE LET first == range_list[1]
                 second == range_list[2]
                 inclusive == inclusive_dict(<<first[1], second[Len(second)]>>)
             IN  IF ~inclusive.ok THEN inclusive
                 ELSE Ok([lower |-> SubSeq(first, 2, Len(first)),
                          upper |-> SubSeq(second, 1, Len(second) - 1),
                          inclusive |-> inclusive.val])

\* the text after "range.replace('),', ')|')" and "range.replace('],', ']|')":
\* str.replace returns a new str and both results are dropped
SeparateGroups(range) == range

\* [range2tuple(r) for r in multi_range]: the tuples, or the first exception
RECURSIVE TuplesOf(_)
TuplesOf(multi_range) ==
    IF Len(multi_range) = 0 THEN Ok(<<>>)
    ELSE LET head == range2tuple(multi_range[1])
             rest == IF head.ok THEN TuplesOf(Tail(multi_range)) ELSE head
         IN  IF ~head.ok THEN head
             ELSE IF ~rest.ok THEN rest
             ELSE Ok(<<head.val>> \o rest.val)

range2params(range) ==
    TuplesOf(Split(SeparateGroups(clean_formula(range)), "|"))

(***************************************************************************)
(* The range texts given to the codec.                                     *)
(***************************************************************************)
MaxGroups == 2   \* bracket groups of a range expression

Openers == {"(", "[", cFWLP}
Closers == {")", "]"}
Lowers  == {<<"1">>, <<"-", "2">>}
Uppers  == {<<"2">>}

BracketGroups ==
    {<<o>> \o lo \o <<",">> \o hi \o <<c>> :
        o \in Openers, lo \in Lowers, hi \in Uppers, c \in Closers}

GroupSeparators == {<<",">>, <<cFWCOM>>, <<"|">>}

\* 1..n groups, a separator between neighbours
RECURSIVE RangeTexts(_)
RangeTexts(n) ==
    IF n = 1 THEN BracketGroups
    ELSE LET shorter == RangeTexts(n - 1)
         IN  shorter \cup {s \o sep \o g :
                              s \in shorter, sep \in GroupSeparators, g \in BracketGroups}

\* texts of one group that are cut, unbracketed or spaced, and the example of
\* the docstring of range2params
OtherRangeTexts ==
    {<<"(", "-", "2", ",", "-", "1", "]">>,
     <<"(", " ", "1", " ", ",", " ", "2", " ", "]">>,
     <<"1", ",", "2">>, <<"{", "1", ",", "2", "}">>, <<"[", "1", ",", "2", "[">>,
     <<",", "2", ")">>, <<"(", "1", ",">>, <<",">>, <<"(", ",", ")">>,
     <<"(", "1", ")">>, <<"[", "1", cFWCOM, "2", ")">>, <<>>}

Call_range2tuple ==
    /\ op = "idle"
    /\ \E range \in RangeTexts(MaxGroups) \cup OtherRangeTexts :
         /\ arg' = [range |-> range]
         /\ ret' = range2tuple(range)
    /\ op' = "range2tuple"
    /\ heap' = <<>>

Call_range2params ==
    /\ op = "idle"
    /\ \E range \in RangeTexts(MaxGroups) :
         /\ arg' = [range |-> range]
         /\ ret' = range2params(range)
    /\ op' = "range2params"
    /\ heap' = <<>>

NextRange == Call_range2tuple \/ Call_range2params

SpecRange == Init /\ [][NextRange]_vars

(***************************************************************************)
(* C5.  Several ranges in one text.                                        *)
(***************************************************************************)
\* the bracket groups of a text whose groups are separated by commas: the text
\* cut at each ',' that follows a closing bracket
CommaSeparatedGroups(range) ==
    Split(Replace(Replace(clean_formula(range), <<")", ",">>, <<")", "|">>),
                  <<"]", ",">>, <<"]", "|">>), "|")

\* C5: range2params of k bracket groups separated by commas returns the k
\* tuples range2tuple gives for the groups, in order.
C5_MultiRangeSplitsGroups ==
    (op = "range2params" /\ ~Contains(arg.range, <<"|">>)) =>
        LET groups == CommaSeparatedGroups(arg.range)
        IN  ret = Ok([i \in 1..Len(groups) |-> range2tuple(groups[i]).val])

\* what the code does for two groups and more: range2tuple is given the whole
\* text and its assertion on the number of parts fails
C5_MultiRangeRejected ==
    ( /\ op = "range2params"
      /\ ~Contains(arg.range, <<"|">>)
      /\ Len(CommaSeparatedGroups(arg.range)) > 1 )
    => ret = Err("AssertionError")

(***************************************************************************)
(* _parse_fields                                                           *)
(***************************************************************************)
_formula_special_words == {
    <<"m", "a", "t", "c", "h">>,
    <<"e", "x", "a", "c", "t", "_", "m", "a", "t", "c", "h">>,
    <<"y", "e", "a", "r">>,
    <<"Y">>,
    <<"q", "u", "a", "r", "t", "e", "r">>,
    <<"Q">>,
    <<"m", "o", "n", "t", "h">>,
    <<"M">>,
    <<"d", "a", "y">>,
    <<"D">>,
    <<"c", "o", "u", "n", "t">>,
    <<"s", "u", "m">>,
    <<"m", "e", "a", "n">>,
    <<"q", "u", "a", "n", "t", "i", "l", "e">>,
    <<"a", "b", "s">>,
    <<"T", "r", "u", "e">>,
    <<"F", "a", "l", "s", "e">>,
    <<"T", "R", "U", "E">>,
    <<"F", "A", "L", "S", "E">>,
    <<"t", "r", "u", "e">>,
    <<"f", "a", "l", "s", "e">> }

\* list(r',+-*/()=<>%#&|')
stop_symbol == <<",", "+", "-", "*", "/", "(", ")", "=", "<", ">", "%", "#", "&", "|">>

\* the pairs of exception_mapper, in the order of the source
exception_mapper == <<
    << <<"^", "-">>,  <<"^", "^">> >>,
    << <<"~", "-">>,  <<"~", "~">> >>,
    << <<cDEG, "-">>, <<cDEG, cDEG>> >> >>

\* for k, v in exception_mapper.items(): formula = formula.replace(k, v)
RECURSIVE ProtectExceptions(_, _)
ProtectExceptions(formula, i) ==
    IF i > Len(exception_mapper) THEN formula
    ELSE ProtectExceptions(
             Replace(formula, exception_mapper[i][1], exception_mapper[i][2]), i + 1)

\* for k, v in exception_mapper.items(): formula = formula.replace(v, k)
RECURSIVE RestoreExceptions(_, _)
RestoreExceptions(formula, i) ==
    IF i > Len(exception_mapper) THEN formula
    ELSE RestoreExceptions(
             Replace(formula, exception_mapper[i][2], exception_mapper[i][1]), i + 1)

\* for s in stop_symbol: formula = formula.replace(s, ' ')
BlankStopSymbols(formula) ==
    [i \in 1..Len(formula) |->
        IF \E k \in DOMAIN stop_symbol : stop_symbol[k] = formula[i]
        THEN " " ELSE formula[i]]

\* while '  ' in formula: formula = formula.replace('  ', ' ')
RECURSIVE CollapseSpaces(_)
CollapseSpaces(formula) ==
    IF Contains(formula, <<" ", " ">>)
    THEN CollapseSpaces(Replace(formula, <<" ", " ">>, <<" ">>))
    ELSE formula

\* formula.strip(), the only white space of the model being ' '
RECURSIVE Strip(_)
Strip(formula) ==
    IF Len(formula) > 0 /\ formula[1] = " " THEN Strip(Tail(formula))
    ELSE IF Len(formula) > 0 /\ formula[Len(formula)] = " "
         THEN Strip(SubSeq(formula, 1, Len(formula) - 1))
         ELSE formula

\* the raw tokens: lines 233-246
RawTokens(formula) ==
    Split(RestoreExceptions(
              Strip(CollapseSpaces(BlankStopSymbols(ProtectExceptions(formula, 1)))), 1),
          " ")

\* s.isdigit() for the digits 0-9
IsDigitStr(s) == Len(s) > 0 /\ \A i \in 1..Len(s) : \E d \in 1..10 : Digits[d] = s[i]

\* the three conditions under which a token is dropped
IsDropped(f) ==
    \/ IsDigitStr(Replace(Replace(f, <<".">>, <<>>), <<"-">>, <<>>))
    \/ Contains(f, <<"\"">>)
    \/ f \in _formula_special_words

\* one pass of the loop of lines 252-262 over a token
MarkToken(f) ==
    LET kept == IF IsDropped(f) THEN <<>> ELSE f
    IN  IF Contains(kept, <<".">>) /\ ~(Len(kept) > 0 /\ kept[Len(kept)] = ")")
        THEN kept \o <<"(", ")">>
        ELSE kept

\* the retained tokens, in order: lines 252-264
RetainedTokens(formula) ==
    SelectSeq([i \in 1..Len(RawTokens(formula)) |-> MarkToken(RawTokens(formula)[i])],
              LAMBDA f : f # <<>>)

SuffixMarks == {"~", "^", cDEG, "."}

\* re.compile(r'[^~^(deg).]+').match(f): the length of the match, 0 for None
RECURSIVE OriginLength(_, _)
OriginLength(f, i) ==
    IF i > Len(f) \/ f[i] \in SuffixMarks THEN i - 1
    ELSE OriginLength(f, i + 1)

\* pattern.match(f).group()
CutSuffix(f) == SubSeq(f, 1, OriginLength(f, 1))

\* What _parse_fields returns: with unique = False the list (ordered), with
\* unique = True a list in no particular order (the list of a set), of which the
\* model keeps the elements only; elements holds the elements in both cases.
FieldList(fields) ==
    [ordered |-> fields, elements |-> {fields[i] : i \in 1..Len(fields)}]

FieldSet(fields) == [ordered |-> <<>>, elements |-> fields]

\* unique = True; match() is None for a token that starts with a suffix mark
UniqueFields(fields) ==
    LET distinct == {fields[i] : i \in 1..Len(fields)}
    IN  IF \E f \in distinct : OriginLength(f, 1) = 0 THEN Err("AttributeError")
        ELSE Ok(FieldSet({CutSuffix(f) : f \in distinct}))

_parse_fields(formula, unique) ==
    IF unique THEN UniqueFields(RetainedTokens(formula))
    ELSE Ok(FieldList(RetainedTokens(formula)))

(***************************************************************************)
(* The formulas given to the field extractor.                              *)
(***************************************************************************)
MaxFieldPieces == 4   \* pieces of a formula given to _parse_fields

FieldPieces == {<<"a">>, <<"5">>, <<"s", "u", "m">>, <<"+">>, <<"-">>,
                <<"^">>, <<".">>, <<"\"">>}

Call_parse_fields ==
    /\ op = "idle"
    /\ \E formula \in PieceStrings(FieldPieces, MaxFieldPieces), unique \in BOOLEAN :
         /\ arg' = [formula |-> formula, unique |-> unique]
         /\ ret' = _parse_fields(formula, unique)
    /\ op' = "_parse_fields"
    /\ heap' = <<>>

NextFields == Call_parse_fields

SpecFields == Init /\ [][NextFields]_vars

(***************************************************************************)
(* C7, C8.  What the field extractor returns.                              *)
(***************************************************************************)
\* the elements of the returned list
ReturnedFields == ret.val.elements

\* digits only, once '.' and '-' are removed
IsNumericToken(f) == IsDigitStr(Replace(Replace(f, <<".">>, <<>>), <<"-">>, <<>>))

\* C7: for unique = true and unique = false, the result of _parse_fields holds
\* no purely numeric token, no token with a double quote and no reserved word.
C7_NoLiteralOrReservedWordReturned ==
    (op = "_parse_fields" /\ ret.ok) =>
        \A f \in ReturnedFields :
            /\ ~IsNumericToken(f)
            /\ ~Contains(f, <<"\"">>)
            /\ f \notin _formula_special_words

\* the part of C7 the code satisfies: unique = false
C7_NoLiteralOrReservedWordInList ==
    (op = "_parse_fields" /\ ret.ok /\ ~arg.unique) =>
        \A f \in ReturnedFields :
            /\ ~IsNumericToken(f)
            /\ ~Contains(f, <<"\"">>)
            /\ f \notin _formula_special_words

\* C8: with unique = true _parse_fields returns, for every formula, the
\* duplicate-free collection of the retained tokens, each cut at its first
\* '~', '^', degree sign or '.'.
C8_UniqueReturnsOrigins ==
    (op = "_parse_fields" /\ arg.unique) =>
        /\ ret.ok
        /\ ret.val.elements = {CutSuffix(f) : f \in FieldList(RetainedTokens(arg.formula)).elements}

(***************************************************************************)
(* parse_special_field and translate_special_field                         *)
(***************************************************************************)
UpperCase == <<"A", "B", "C", "D", "E", "F", "G", "H", "I", "J", "K", "L", "M",
               "N", "O", "P", "Q", "R", "S", "T", "U", "V", "W", "X", "Y", "Z">>
LowerCase == <<"a", "b", "c", "d", "e", "f", "g", "h", "i", "j", "k", "l", "m",
               "n", "o", "p", "q", "r", "s", "t", "u", "v", "w", "x", "y", "z">>

\* s.lower()
Lower(s) ==
    [i \in 1..Len(s) |->
        IF \E k \in 1..26 : UpperCase[k] = s[i]
        THEN LowerCase[CHOOSE k \in 1..26 : UpperCase[k] = s[i]]
        ELSE s[i]]

IsLowerLetter(c) == \E k \in 1..26 : LowerCase[k] = c
IsIdentChar(c) ==
    \/ \E k \in 1..26 : LowerCase[k] = c \/ UpperCase[k] = c
    \/ \E d \in 1..10 : Digits[d] = c
    \/ c = "_"

\* the keys of _field_shift_operation_mapper
_field_shift_operators == {"^", "~", cDEG}

\* the length of the longest prefix of identifier characters
RECURSIVE IdentLength(_, _)
IdentLength(field, i) ==
    IF i > Len(field) \/ ~IsIdentChar(field[i]) THEN i - 1
    ELSE IdentLength(field, i + 1)

\* _field_executable_pattern.match(field): identifier, '.', a lower-case letter
MatchesExecutable(field) ==
    LET n == IdentLength(field, 1)
    IN  /\ n >= 1
        /\ n + 2 <= Len(field)
        /\ field[n + 1] = "."
        /\ IsLowerLetter(field[n + 2])

\* the dictionary returned for an executable field; origin is a prefix of field,
\* so field.replace(origin, '', 1) is the rest of field
ExecutableToken(field) ==
    LET n == IdentLength(field, 1)
    IN  [origin |-> SubSeq(field, 1, n),
         executable |-> SubSeq(field, n + 1, Len(field)),
         _success |-> TRUE]

\* _field_shift_pattern.match(field): the position of the last shift operator
\* ('(.*)' is greedy), 0 when there is none
LastOperator(field) ==
    IF \E i \in 1..Len(field) : field[i] \in _field_shift_operators
    THEN CHOOSE i \in 1..Len(field) :
            /\ field[i] \in _field_shift_operators
            /\ \A j \in (i + 1)..Len(field) : field[j] \notin _field_shift_operators
    ELSE 0

\* NoShift that reports a success
NoShift_Succeeded(field) ==
    [origin |-> field, unit |-> <<>>, direction |-> <<>>, offset |-> <<>>,
     _success |-> TRUE]

\* the dictionary of an unrecognised or current-period field
NoShift(field) ==
    [origin |-> field, unit |-> <<>>, direction |-> <<>>, offset |-> <<>>,
     _success |-> FALSE]

\* a result with the number of warnings issued
Warned(r, n) == [ok |-> r.ok, val |-> r.val, err |-> r.err, warned |-> n]

uYEND == <<"Y", "E", "N", "D">>
uY    == <<"Y">>
uQ    == <<"Q">>
uM    == <<"M">>
dCurrent  == <<"c", "u", "r", "r", "e", "n", "t">>
dForward  == <<"f", "o", "r", "w", "a", "r", "d">>
dBackward == <<"b", "a", "c", "k", "w", "a", "r", "d">>

\* operating_unit, <<>> when no unit is recognised
OperatingUnit(sign) ==
    IF Contains(sign, <<"e", "n", "d">>) \/ Contains(sign, <<cMO>>) \/ Contains(sign, <<cDEG>>)
    THEN uYEND
    ELSE IF \/ Contains(sign, <<"y", "e", "a", "r">>) \/ Contains(sign, <<cNIAN>>)
            \/ Contains(sign, <<"^">>) \/ Contains(sign, <<cQI>>)
    THEN uY
    ELSE IF \/ Contains(sign, <<"q", "u", "a", "r", "t", "e", "r">>)
            \/ Contains(sign, <<cJI>>) \/ Contains(sign, <<"~">>)
    THEN uQ
    ELSE IF Contains(sign, <<"m", "o", "n", "t", "h">>) \/ Contains(sign, <<cYUE>>)
    THEN uM
    ELSE <<>>

\* Direction with the backward markers tested before the current markers
Direction_BackwardFirst(sign) ==
    IF \/ Contains(sign, <<cXIA>>) \/ Contains(sign, <<"^", "-">>)
       \/ Contains(sign, <<"~", "-">>) \/ Contains(sign, <<cDEG, "-">>)
    THEN dForward
    ELSE IF \/ Contains(sign, <<cSHANG>>) \/ Contains(sign, <<"^">>)
            \/ Contains(sign, <<"~">>) \/ Contains(sign, <<cDEG>>)
    THEN dBackward
    ELSE IF Contains(sign, <<cBEN>>) \/ Contains(sign, <<cDANG>>)
            \/ Contains(sign, <<cDEG, "0">>)
    THEN dCurrent
    ELSE <<>>

\* direction, <<>> when no direction is recognised
Direction(sign) ==
    IF Contains(sign, <<cBEN>>) \/ Contains(sign, <<cDANG>>) \/ Contains(sign, <<cDEG, "0">>)
    THEN dCurrent
    ELSE IF \/ Contains(sign, <<cXIA>>) \/ Contains(sign, <<"^", "-">>)
            \/ Contains(sign, <<"~", "-">>) \/ Contains(sign, <<cDEG, "-">>)
    THEN dForward
    ELSE IF \/ Contains(sign, <<cSHANG>>) \/ Contains(sign, <<"^">>)
            \/ Contains(sign, <<"~">>) \/ Contains(sign, <<cDEG>>)
    THEN dBackward
    ELSE <<>>

IsDigit(c) == \E d \in 1..10 : Digits[d] = c
DigitValue(c) == (CHOOSE d \in 1..10 : Digits[d] = c) - 1

\* where re.search(r'[\-]?\d+', sign) matches first: 0 when it does not
LiteralStart(sign) ==
    LET starts == {i \in 1..Len(sign) :
                      \/ IsDigit(sign[i])
                      \/ sign[i] = "-" /\ i < Len(sign) /\ IsDigit(sign[i + 1])}
    IN  IF starts = {} THEN 0
        ELSE CHOOSE i \in starts : \A j \in starts : i <= j

\* the value of the digits of sign from position i on, read after acc
RECURSIVE DigitsValue(_, _, _)
DigitsValue(sign, i, acc) ==
    IF i > Len(sign) \/ ~IsDigit(sign[i]) THEN acc
    ELSE DigitsValue(sign, i + 1, acc * 10 + DigitValue(sign[i]))

\* int(re.search(r'[\-]?\d+', sign).group()), for a sign that holds a literal
LiteralValue(sign) ==
    LET i == LiteralStart(sign)
    IN  IF sign[i] = "-" THEN -DigitsValue(sign, i + 1, 0)
        ELSE DigitsValue(sign, i, 0)

Abs(n) == IF n < 0 THEN -n ELSE n

\* sign.count(c)
Count(sign, c) == Cardinality({i \in 1..Len(sign) : sign[i] = c})

\* offset_num from the literal of the sign
OffsetFromLiteral(sign, direction) ==
    IF direction = dForward THEN -Abs(LiteralValue(sign)) ELSE LiteralValue(sign)

\* offset_num: lines 369-381
OffsetNum(sign, direction) ==
    IF LiteralStart(sign) # 0 THEN Ok(OffsetFromLiteral(sign, direction))
    ELSE IF Contains(sign, <<cSHANG>>) THEN Ok(Count(sign, cSHANG))
    ELSE IF Contains(sign, <<cXIA>>) THEN Ok(-Count(sign, cXIA))
    ELSE IF Contains(sign, <<cBEN>>) \/ Contains(sign, <<cDANG>>)
            \/ Contains(sign, <<cDEG, "0">>)
    THEN Ok(0)
    ELSE Err("ValueError")

\* the synonyms of 'current period': lines 345
CurrentPeriod == {<<cBEN, cQI>>, <<cDANG, cQI>>, <<>>}

\* the sign decoded without the test for the current-period synonyms
DecodeSign_NoSynonyms(field, sign0) ==
    LET sign == Lower(sign0)
        unit == OperatingUnit(sign)
        direction == Direction(sign)
        offset == OffsetNum(sign, direction)
    IN  IF unit = <<>> THEN Err("ValueError")
        ELSE IF direction = <<>> THEN Err("ValueError")
        ELSE IF ~offset.ok THEN offset
        ELSE Ok([origin |-> field, unit |-> unit, direction |-> direction,
                 offset |-> offset.val, _success |-> TRUE])

\* lines 344-389: the sign is known
DecodeSign(field, sign0) ==
    LET sign == Lower(sign0)
        unit == OperatingUnit(sign)
        direction == Direction(sign)
        offset == OffsetNum(sign, direction)
    IN  IF sign \in CurrentPeriod THEN Ok(NoShift(field))
        ELSE IF unit = <<>> THEN Err("ValueError")
        ELSE IF direction = <<>> THEN Err("ValueError")
        ELSE IF ~offset.ok THEN offset
        ELSE Ok([origin |-> field, unit |-> unit, direction |-> direction,
                 offset |-> offset.val, _success |-> TRUE])

\* parse_special_field with the executable suffix tested after the shift
parse_special_field_ShiftFirst(field, sign, error) ==
    IF sign.given THEN Warned(DecodeSign(field, sign.text), 0)
    ELSE IF LastOperator(field) # 0
    THEN Warned(DecodeSign(SubSeq(field, 1, LastOperator(field) - 1),
                           SubSeq(field, LastOperator(field), Len(field))), 0)
    ELSE IF MatchesExecutable(field) THEN Warned(Ok(ExecutableToken(field)), 0)
    ELSE CASE error = "raise"  -> Warned(Err("ValueError"), 0)
           [] error = "warn"   -> Warned(Ok(NoShift(field)), 1)
           [] error = "ignore" -> Warned(Ok(NoShift(field)), 0)

\* sign is [given |-> whether a sign was passed, text |-> the sign];
\* error is "ignore", "warn" or "raise"
parse_special_field(field, sign, error) ==
    IF MatchesExecutable(field) THEN Warned(Ok(ExecutableToken(field)), 0)
    ELSE IF sign.given THEN Warned(DecodeSign(field, sign.text), 0)
    ELSE LET i == LastOperator(field)
         IN  IF i = 0
             THEN CASE error = "raise"  -> Warned(Err("ValueError"), 0)
                    [] error = "warn"   -> Warned(Ok(NoShift(field)), 1)
                    [] error = "ignore" -> Warned(Ok(NoShift(field)), 0)
             ELSE Warned(DecodeSign(SubSeq(field, 1, i - 1),
                                    SubSeq(field, i, Len(field))), 0)

\* format_str.format(**parsed, abs_offset=abs(parsed['offset']))
CanonicalName(parsed) ==
    parsed.origin \o <<"_">> \o parsed.unit \o parsed.direction
                  \o IntToStr(Abs(parsed.offset))

\* "parsed['_success'] and 'unit' in parsed"
IsShift(parsed) == parsed._success /\ "unit" \in DOMAIN parsed

\* translate_special_field for a str field
translate_special_field(field, sign, error) ==
    LET parsed == parse_special_field(field, sign, error)
    IN  IF ~parsed.ok THEN parsed
        ELSE IF IsShift(parsed.val)
             THEN Warned(Ok(CanonicalName(parsed.val)), parsed.warned)
             ELSE Warned(Ok(field), parsed.warned)

MaxShiftPieces == 4

\* the pieces the fields without an explicit sign are written with
ShiftPieces == {<<"a">>, <<"^">>, <<cDEG>>, <<"-">>, <<"0">>, <<"1">>, <<".", "b">>}

NoSign == [given |-> FALSE, text |-> <<>>]
Sign(text) == [given |-> TRUE, text |-> text]

\* the explicit signs: natural-language markers and operator markers
ExplicitSigns ==
    {<<>>, <<cBEN, cQI>>, <<cDANG, cQI>>, <<cSHANG, cQI>>, <<cXIA, cQI>>,
     <<cSHANG, cSHANG, cQI>>, <<cSHANG, cNIAN, cMO>>, <<cBEN, cNIAN, cMO>>,
     <<cXIA, cJI>>, <<cSHANG, cYUE>>, <<cSHANG, "Y", "E", "A", "R">>,
     <<"y", "e", "a", "r", "1">>, <<"x">>, <<"^">>, <<"^", "1">>, <<"^", "-", "1">>,
     <<"~", "2">>, <<"~", "-", "2">>, <<cDEG, "0">>, <<cSHANG, "-", "1", cQI>>,
     <<cXIA, "2", cQI>>, <<cBEN, cQI, "1">>}

SignedFields == {<<"a">>, <<"a", ".", "b">>, <<"a", "^", "1">>}

ErrorPolicies == {"ignore", "warn", "raise"}

ShiftArgs ==
    {[field |-> f, sign |-> NoSign, error |-> e] :
        f \in PieceStrings(ShiftPieces, MaxShiftPieces), e \in ErrorPolicies}
    \cup {[field |-> f, sign |-> Sign(t), error |-> e] :
        f \in SignedFields, t \in ExplicitSigns, e \in ErrorPolicies}

Call_parse_special_field ==
    /\ op = "idle"
    /\ \E a \in ShiftArgs :
        /\ arg' = a
        /\ ret' = parse_special_field(a.field, a.sign, a.error)
    /\ op' = "parse_special_field"
    /\ heap' = <<>>

Call_translate_special_field ==
    /\ op = "idle"
    /\ \E a \in ShiftArgs :
        /\ arg' = a
        /\ ret' = translate_special_field(a.field, a.sign, a.error)
    /\ op' = "translate_special_field"
    /\ heap' = <<>>

NextShift == Call_parse_special_field \/ Call_translate_special_field

SpecShift == Init /\ [][NextShift]_vars

(***************************************************************************)
(* C9, C10: fields without a usable shift, and the sign of the offset      *)
(***************************************************************************)
Translated == op = "translate_special_field" /\ arg.error \in {"ignore", "warn"}

\* an identifier, a dot and a lower-case letter open the field
HasExecutableSuffix(field) ==
    \E n \in 1..Len(field) :
        /\ \A i \in 1..n : IsIdentChar(field[i])
        /\ n + 2 <= Len(field)
        /\ field[n + 1] = "."
        /\ IsLowerLetter(field[n + 2])

HasShiftOperator(field) == \E i \in 1..Len(field) : field[i] \in {"^", "~", cDEG}

SignIsCurrentPeriod ==
    arg.sign.given /\ arg.sign.text \in {<<cBEN, cQI>>, <<cDANG, cQI>>, <<>>}

\* the field holds no shift token: decoding it fails or yields success = false
DecodesToNoShift ==
    LET parsed == parse_special_field(arg.field, arg.sign, arg.error)
    IN  ~parsed.ok \/ ~parsed.val._success \/ "unit" \notin DOMAIN parsed.val

\* C9 as stated: under ignore or warn, translate_special_field returns every
\* field that holds no usable shift (a field that fails to decode, a field
\* with a current-period sign, an executable-suffix field) as its original
\* text, and never fails on it.
C9_UndecodableFieldReturnedUnchanged ==
    (Translated /\ DecodesToNoShift) => (ret.ok /\ ret.val = arg.field)

\* C9: under ignore or warn, translate_special_field returns the field as its
\* original text when the field has an executable suffix, when the sign is a
\* current-period synonym, or when no sign is given and the field holds no
\* shift operator.
C9_UnmarkedFieldReturnedUnchanged ==
    (/\ Translated
     /\ \/ HasExecutableSuffix(arg.field)
        \/ SignIsCurrentPeriod
        \/ ~arg.sign.given /\ ~HasShiftOperator(arg.field))
    => (ret.ok /\ ret.val = arg.field)

C9_Witness ==
    /\ op = "translate_special_field"
    /\ arg.field = <<"a", "1">>
    /\ ~arg.sign.given
    /\ arg.error = "warn"
    /\ ret = Warned(Ok(<<"a", "1">>), 1)

Decoded ==
    /\ op = "parse_special_field"
    /\ ret.ok
    /\ ret.val._success
    /\ "direction" \in DOMAIN ret.val

\* C10: in every successfully decoded shift token, a backward direction has a
\* positive offset, a forward direction a negative offset, and a current
\* direction the offset 0.
C10_OffsetAgreesWithDirection ==
    Decoded =>
        /\ ret.val.direction = dBackward => ret.val.offset > 0
        /\ ret.val.direction = dForward  => ret.val.offset < 0
        /\ ret.val.direction = dCurrent  => ret.val.offset = 0

\* a forward direction never has a positive offset, whatever the literal
C10_ForwardNeverPositive ==
    (Decoded /\ ret.val.direction = dForward) => ret.val.offset <= 0

(***************************************************************************)
(* C11: the year shift and the current year end                            *)
(***************************************************************************)
\* the text before the first shift operator of a field that holds one
OriginOf(field) ==
    SubSeq(field, 1,
           (CHOOSE i \in 1..Len(field) :
                /\ field[i] \in {"^", "~", cDEG}
                /\ ~HasShiftOperator(SubSeq(field, 1, i - 1))) - 1)

\* the text after the first shift operator
ParameterOf(field) == SubSeq(field, Len(OriginOf(field)) + 2, Len(field))

OperatorOf(field) == field[Len(OriginOf(field)) + 1]

\* a positive integer written in decimal
IsPositiveLiteral(s) ==
    /\ Len(s) > 0
    /\ s[1] \in {"1", "2", "3", "4", "5", "6", "7", "8", "9"}
    /\ \A i \in 1..Len(s) : s[i] \in {"0", "1", "2", "3", "4", "5", "6", "7", "8", "9"}

\* the call is given origin + operator + parameter and no sign
ShiftedField ==
    /\ op \in {"parse_special_field", "translate_special_field"}
    /\ ~arg.sign.given
    /\ HasShiftOperator(arg.field)
    /\ ~HasExecutableSuffix(arg.field)

YearShifted ==
    /\ ShiftedField
    /\ OperatorOf(arg.field) = "^"
    /\ IsPositiveLiteral(ParameterOf(arg.field))

YearEndCurrent ==
    /\ ShiftedField
    /\ OperatorOf(arg.field) = cDEG
    /\ ParameterOf(arg.field) = <<"0">>

\* C11: with no sign, origin^n (n a positive integer literal) decodes to unit
\* Y, direction backward, offset n and is encoded origin_Ybackwardn; origin
\* followed by the year-end operator and 0 decodes to unit YEND, direction
\* current, offset 0 and is encoded origin_YENDcurrent0.
C11_YearShiftAndYearEndDecoded ==
    /\ (YearShifted /\ op = "parse_special_field") =>
          /\ ret.ok
          /\ DOMAIN ret.val = {"origin", "unit", "direction", "offset", "_success"}
          /\ ret.val._success
          /\ ret.val.origin = OriginOf(arg.field)
          /\ ret.val.unit = <<"Y">>
          /\ ret.val.direction = <<"b", "a", "c", "k", "w", "a", "r", "d">>
          /\ ret.val.offset > 0
          /\ IntToStr(ret.val.offset) = ParameterOf(arg.field)
    /\ (YearShifted /\ op = "translate_special_field") =>
          /\ ret.ok
          /\ ret.val = OriginOf(arg.field)
                       \o <<"_", "Y", "b", "a", "c", "k", "w", "a", "r", "d">>
                       \o ParameterOf(arg.field)
    /\ (YearEndCurrent /\ op = "parse_special_field") =>
          /\ ret.ok
          /\ DOMAIN ret.val = {"origin", "unit", "direction", "offset", "_success"}
          /\ ret.val._success
          /\ ret.val.origin = OriginOf(arg.field)
          /\ ret.val.unit = <<"Y", "E", "N", "D">>
          /\ ret.val.direction = <<"c", "u", "r", "r", "e", "n", "t">>
          /\ ret.val.offset = 0
    /\ (YearEndCurrent /\ op = "translate_special_field") =>
          /\ ret.ok
          /\ ret.val = OriginOf(arg.field)
                       \o <<"_", "Y", "E", "N", "D", "c", "u", "r", "r", "e", "n", "t", "0">>

C11_Witness ==
    /\ op = "translate_special_field"
    /\ arg.field = <<"a", cDEG, "0">>
    /\ ~arg.sign.given
    /\ ret.ok
    /\ ret.val = <<"a", "_", "Y", "E", "N", "D", "c", "u", "r", "r", "e", "n", "t", "0">>

(***************************************************************************)
(* C12: the caller's thresholds list after the call                        *)
(***************************************************************************)
ListPassed ==
    /\ op \in {"config2range", "gen_compare_formula"}
    /\ arg.thresholds.list

\* C12: after config2range or gen_compare_formula returns, the caller's
\* thresholds list holds the same elements in the same order as before.
C12_ThresholdsListUnchanged ==
    (ListPassed /\ ret.ok) => heap = arg.thresholds.items

\* the list keeps its elements: at most their order changes
C12_ThresholdsListKeepsElements ==
    ListPassed =>
        /\ Len(heap) = Len(arg.thresholds.items)
        /\ \/ heap = arg.thresholds.items
           \/ /\ Len(heap) = 2
              /\ heap = <<arg.thresholds.items[2], arg.thresholds.items[1]>>

(***************************************************************************)
(* simple_cleaning and clean_formula on a str                              *)
(***************************************************************************)
\* the texts simple_cleaning turns into ''
EmptyTokens == {<<"-">>, <<"n", "a", "n">>, <<"N", "a", "N">>, <<"N", "A", "N">>, <<"N", "o", "n", "e">>}

\* simple_cleaning without the removal of the spaces
simple_cleaning_KeepSpaces(text) ==
    LET cleaned == Replace(text, <<cFWCOM>>, <<",">>)
    IN  IF cleaned \in EmptyTokens THEN <<>> ELSE cleaned

\* simple_cleaning of a str: lines 93-95
simple_cleaning(text) ==
    LET cleaned == Replace(Replace(text, <<" ">>, <<>>), <<cFWCOM>>, <<",">>)
    IN  IF cleaned \in EmptyTokens THEN <<>> ELSE cleaned

MaxCleanPieces == 3

\* the pieces of the texts given to simple_cleaning
CleaningPieces ==
    {<<"n", "a", "n">>, <<"N", "a", "N">>, <<"N", "A", "N">>, <<"N", "a", "n">>, <<"N", "o", "n", "e">>, <<"n", "o", "n", "e">>, <<"N", "O", "N", "E">>,
     <<"-">>, <<" ">>, <<cFWCOM>>, <<"a">>}

\* the pieces of the formulas given to clean_formula
UncleanPieces ==
    {<<"a">>, <<" ">>, <<"\t">>, <<cFWSP>>, <<cFWLP>>, <<cLE>>, <<cFWCOM>>, <<"<", "=">>}

Call_simple_cleaning ==
    /\ op = "idle"
    /\ \E text \in PieceStrings(CleaningPieces, MaxCleanPieces) :
         /\ arg' = [text |-> text]
         /\ ret' = Ok(simple_cleaning(text))
    /\ op' = "simple_cleaning"
    /\ heap' = <<>>

Call_clean_formula ==
    /\ op = "idle"
    /\ \E formula \in PieceStrings(UncleanPieces, MaxCleanPieces) :
         /\ arg' = [text |-> formula]
         /\ ret' = Ok(clean_formula(formula))
    /\ op' = "clean_formula"
    /\ heap' = <<>>

NextClean == Call_simple_cleaning \/ Call_clean_formula

SpecClean == Init /\ [][NextClean]_vars

(***************************************************************************)
(* C13, C14: what the two cleaners return                                  *)
(***************************************************************************)
\* the text without its spaces, the full-width comma written ','
WithoutSpaces(text) ==
    LET kept == SelectSeq(text, LAMBDA c : c # " ")
    IN  [i \in 1..Len(kept) |-> IF kept[i] = cFWCOM THEN "," ELSE kept[i]]

\* C13 as stated: simple_cleaning returns '' for '-' and for every upper- and
\* lower-case spelling of 'nan' and 'none', once the spaces are removed.
C13_EmptyTokensWhateverTheCase ==
    (op = "simple_cleaning"
        /\ Lower(WithoutSpaces(arg.text)) \in {<<"-">>, <<"n", "a", "n">>, <<"n", "o", "n", "e">>})
    => ret.val = <<>>

\* C13: simple_cleaning returns '' exactly for the texts that, once the spaces
\* are removed, are '-', 'nan', 'NaN', 'NAN' or 'None'; every other text is
\* returned without its spaces and with ',' for the full-width comma.
C13_EmptyTokensAsSpelled ==
    op = "simple_cleaning" =>
        /\ ret.ok
        /\ ret.val = IF WithoutSpaces(arg.text) \in
                          {<<"-">>, <<"n", "a", "n">>, <<"N", "a", "N">>,
                           <<"N", "A", "N">>, <<"N", "o", "n", "e">>}
                     THEN <<>>
                     ELSE WithoutSpaces(arg.text)

C13_Witness ==
    /\ op = "simple_cleaning"
    /\ arg.text = <<" ", "N", "a", "N", " ">>
    /\ ret.val = <<>>

\* the keys of _formula_unify_mapper
UnifyKeys == {_formula_unify_mapper[k][1] : k \in DOMAIN _formula_unify_mapper}

\* C14 as stated: clean_formula is idempotent and its result holds no white
\* space and no key of the unification table.
C14_IdempotentWithoutWhitespace ==
    op = "clean_formula" =>
        /\ clean_formula(ret.val) = ret.val
        /\ \A i \in 1..Len(ret.val) :
              ret.val[i] \notin UnifyKeys \cup {" ", "\t", "\n", "\r", cFWSP}

\* C14: clean_formula is idempotent and its result holds no space (ASCII or
\* full-width) and no key of the unification table.
C14_IdempotentWithoutSpaces ==
    op = "clean_formula" =>
        /\ ret.ok
        /\ clean_formula(ret.val) = ret.val
        /\ \A i \in 1..Len(ret.val) : ret.val[i] \notin UnifyKeys \cup {" ", cFWSP}

C14_Witness ==
    /\ op = "clean_formula"
    /\ arg.text = <<" ", cFWSP, cLE>>
    /\ ret.val = <<"<", "=">>

(***************************************************************************)
(* C15, C16, C17: the kinds and the failures of _parse_formula             *)
(***************************************************************************)
SingleClause == op = "_parse_formula" /\ ~Contains(arg.formula, <<";">>)

\* the call failed with an assertion whose message holds the formula
RejectedNamingFormula ==
    /\ ~ret.ok
    /\ ret.err = "AssertionError"
    /\ Contains(ret.msg, arg.formula)

\* C15: a formula without ';' that contains ',' is rejected with a failure
\* whose message carries the formula; nothing is returned.
C15_SingleClauseWithCommaRejected ==
    (SingleClause /\ Contains(arg.formula, <<",">>)) => RejectedNamingFormula

C15_Witness ==
    /\ op = "_parse_formula"
    /\ arg.formula = <<"a", ",", "a">>
    /\ ret.err = "AssertionError"
    /\ ret.msg = CommaMessage \o <<"\n", "a", ",", "a", "\n">>

\* one of the comparison-operator tokens occurs in the formula
HasComparisonToken(formula) ==
    \E token \in {<<"=", "=">>, <<"!", "=">>, <<"<", "=">>, <<">", "=">>, <<"<">>, <<">">>,
                  <<".", "i", "s", "n", "a", "(", ")">>, <<".", "i", "s", "n", "u", "l", "l", "(", ")">>,
                  <<".", "n", "o", "t", "n", "a", "(", ")">>, <<".", "n", "o", "t", "n", "u", "l", "l", "(", ")">>,
                  <<".", "i", "s", "i", "n">>, <<".", "s", "t", "r", ".", "c", "o", "n", "t", "a", "i", "n", "s">>} :
        Contains(formula, token)

\* C16: a formula without ';' and without ',' that contains a comparison-
\* operator token is never classified Compute: it is classified
\* FixedParamJudge when verify_pythonic_formula returns True, and rejected
\* with a failure naming the formula when it returns False.
C16_ComparisonIsJudgedOrRejected ==
    (/\ SingleClause
     /\ ~Contains(arg.formula, <<",">>)
     /\ HasComparisonToken(arg.formula))
    => IF verify_pythonic_formula(arg.formula)
       THEN ret.ok /\ ret.val = [_type |-> FixedParamJudge, formula |-> arg.formula]
       ELSE RejectedNamingFormula

C16_Witness ==
    /\ op = "_parse_formula"
    /\ arg.formula = <<"a", "=", "<", "=">>
    /\ ~verify_pythonic_formula(arg.formula)
    /\ ret.err = "AssertionError"
    /\ ret.msg = VerifyMessage \o <<"\n", "a", "=", "<", "=", "\n">>

\* the first token of the first clause
RECURSIVE HeadLength(_, _)
HeadLength(formula, i) ==
    IF i > Len(formula) \/ formula[i] \in {";", ","} THEN i - 1
    ELSE HeadLength(formula, i + 1)

HeadOf(formula) == SubSeq(formula, 1, HeadLength(formula, 1))

TimeUnitHeads == {<<"y", "e", "a", "r">>, <<"Y">>, <<"q", "u", "a", "r", "t", "e", "r">>, <<"Q">>,
                  <<"m", "o", "n", "t", "h">>, <<"M">>, <<"d", "a", "y">>, <<"D">>}

StatisticHeads == {<<"c", "o", "u", "n", "t">>, <<"s", "u", "m">>, <<"m", "e", "a", "n">>, <<"q", "u", "a", "n", "t", "i", "l", "e">>}

C18_ExecutableSuffixTakesPrecedence ==
    (op = "parse_special_field" /\ HasExecutableSuffix(arg.field)) =>
        /\ ret.ok
        /\ DOMAIN ret.val = {"origin", "executable", "_success"}
        /\ ret.val._success
        /\ ret.val.origin \o ret.val.executable = arg.field
        /\ Len(ret.val.origin) > 0
        /\ \A i \in 1..Len(ret.val.origin) : IsIdentChar(ret.val.origin[i])
        /\ ret.val.executable[1] = "."

C18_Witness ==
    /\ op = "parse_special_field"
    /\ arg.field = <<"a", ".", "b", "^", "1">>
    /\ ~arg.sign.given
    /\ ret.ok
    /\ ret.val = [origin |-> <<"a">>, executable |-> <<".", "b", "^", "1">>,
                  _success |-> TRUE]

\* the call is given no sign and a field without a shift operator and without
\* an executable suffix
Unmarked ==
    /\ op = "parse_special_field"
    /\ ~arg.sign.given
    /\ ~HasExecutableSuffix(arg.field)
    /\ ~HasShiftOperator(arg.field)

UnmarkedToken ==
    [origin |-> arg.field, unit |-> <<>>, direction |-> <<>>, offset |-> <<>>,
     _success |-> FALSE]

\* C19: without a sign, a field without an executable suffix and without a
\* shift operator is handled as error says: ignore and warn return a token
\* with success false and the field as origin (warn with one warning, ignore
\* with none), raise fails with an error.
C19_UnmarkedFieldFollowsPolicy ==
    Unmarked =>
        /\ arg.error = "ignore" =>
              (ret.ok /\ ret.val = UnmarkedToken /\ ret.warned = 0)
        /\ arg.error = "warn" =>
              (ret.ok /\ ret.val = UnmarkedToken /\ ret.warned = 1)
        /\ arg.error = "raise" =>
              (~ret.ok /\ ret.err = "ValueError" /\ ret.warned = 0)

C19_Witness ==
    /\ Unmarked
    /\ arg.field = <<"a", "-", "1">>
    /\ arg.error = "warn"
    /\ ret.ok
    /\ ~ret.val._success
    /\ ret.val.origin = <<"a", "-", "1">>
    /\ ret.warned = 1

(***************************************************************************)
(* translate_special_field on a list of fields                             *)
(***************************************************************************)
\* the translations of the fields one after the other, as the dictionary
\* comprehension of line 289 makes them: the exception of the first field
\* that fails, or the pairs (field, translation); the warnings add up
RECURSIVE TranslateEach(_, _, _)
TranslateEach(fields, sign, error) ==
    IF Len(fields) = 0 THEN Warned(Ok(<<>>), 0)
    ELSE LET first == translate_special_field(fields[1], sign, error)
             rest == TranslateEach(Tail(fields), sign, error)
         IN  IF ~first.ok THEN first
             ELSE IF ~rest.ok THEN Warned(rest, first.warned + rest.warned)
             ELSE Warned(Ok(<<<<fields[1], first.val>>>> \o rest.val),
                         first.warned + rest.warned)

\* the items of the dictionary: a key stays where it was first inserted
DictItems(pairs) ==
    SelectSeq([i \in 1..Len(pairs) |->
                  IF \E j \in 1..(i - 1) : pairs[j][1] = pairs[i][1]
                  THEN <<>> ELSE pairs[i]],
              LAMBDA item : item # <<>>)

\* the place of item i once the items are sorted by decreasing key length,
\* the items of equal key length staying in their order (the sort is stable)
PlaceByLength(items, i) ==
    1 + Cardinality({j \in 1..Len(items) :
                        \/ Len(items[j][1]) > Len(items[i][1])
                        \/ Len(items[j][1]) = Len(items[i][1]) /\ j < i})

\* the items in their first order
SortedByLength_Unsorted(items) == items

\* sorted(items, key=lambda x: len(x[0]), reverse=True): a stable sort
SortedByLength(items) ==
    [k \in 1..Len(items) |->
        items[CHOOSE i \in 1..Len(items) : PlaceByLength(items, i) = k]]

\* translate_special_field for a list field: lines 288-292
translate_special_field_list(fields, sign, error) ==
    IF TranslateEach(fields, sign, error).ok
    THEN Warned(Ok(SortedByLength(DictItems(TranslateEach(fields, sign, error).val))),
                TranslateEach(fields, sign, error).warned)
    ELSE TranslateEach(fields, sign, error)

MaxFields == 3

\* the fields of the lists
ListedFields ==
    {<<"a">>, <<"a", "b">>, <<"b", "c">>, <<"b", "^", "1">>, <<"a", ".", "b">>,
     <<"c", "^">>}

ListSigns == {NoSign, Sign(<<cSHANG, cQI>>)}

Call_translate_special_field_list ==
    /\ op = "idle"
    /\ \E fields \in SeqsUpTo(ListedFields, MaxFields),
          sign \in ListSigns, error \in ErrorPolicies :
         /\ arg' = [field |-> fields, sign |-> sign, error |-> error]
         /\ ret' = translate_special_field_list(fields, sign, error)
    /\ op' = "translate_special_field_list"
    /\ heap' = <<>>

NextTranslateList == Call_translate_special_field_list

SpecTranslateList == Init /\ [][NextTranslateList]_vars

(***************************************************************************)
(* C20: the mapping returned for a list of fields                          *)
(***************************************************************************)
ListTranslated == op = "translate_special_field_list"

\* C20: for a list of fields translate_special_field returns a mapping with
\* one entry per distinct field, iterated in non-increasing order of the
\* length of the field, each value being the translation of its key alone.
\* (The call fails when the translation of one of the fields fails.)
C20_MappingOrderedByLength ==
    ListTranslated =>
        /\ ret.ok =>
            /\ {ret.val[i][1] : i \in 1..Len(ret.val)}
                   = {arg.field[i] : i \in 1..Len(arg.field)}
            /\ \A i, j \in 1..Len(ret.val) :
                   /\ i # j => ret.val[i][1] # ret.val[j][1]
                   /\ i < j => Len(ret.val[i][1]) >= Len(ret.val[j][1])
            /\ \A i \in 1..Len(ret.val) :
                   LET single == translate_special_field(ret.val[i][1], arg.sign, arg.error)
                   IN  single.ok /\ ret.val[i][2] = single.val
        /\ ~ret.ok =>
            \E i \in 1..Len(arg.field) :
                ~translate_special_field(arg.field[i], arg.sign, arg.error).ok

C20_Witness ==
    /\ ListTranslated
    /\ arg.field = <<<<"a">>, <<"b", "^", "1">>, <<"a">>>>
    /\ ~arg.sign.given
    /\ arg.error = "ignore"
    /\ ret.ok
    /\ ret.val = << <<<<"b", "^", "1">>,
                      <<"b", "_", "Y", "b", "a", "c", "k", "w", "a", "r", "d", "1">>>>,
                    <<<<"a">>, <<"a">>>> >>

(***************************************************************************)
(* unify_number and range2tuple with numeric = True.  The texts are made   *)
(* of digits, '-', the infinity glyph and the letters of 'inf' and 'a', so *)
(* that eval is given a decimal literal, np.inf or a text it cannot read.  *)
(***************************************************************************)
\* np.inf (n = 1) and -np.inf (n = -1)
InfV(n) == [t |-> "inf", n |-> n, s |-> <<>>]

\* a text eval reads as a decimal int: digits, without a leading zero unless
\* every digit is zero
IsDecimalLiteral(s) ==
    /\ Len(s) > 0
    /\ \A i \in 1..Len(s) : IsDigit(s[i])
    /\ (s[1] = "0" => \A i \in 1..Len(s) : s[i] = "0")

\* unify_number without the minus sign
unify_number_Unsigned(string) ==
    IF Len(string) = 0 THEN Err("IndexError")
    ELSE IF \/ Contains(Lower(Replace(string, <<"-">>, <<>>)), <<"i", "n", "f">>)
            \/ Contains(string, <<cINF>>)
    THEN Ok(InfV(1))
    ELSE IF IsDecimalLiteral(Replace(string, <<"-">>, <<>>))
    THEN Ok(IntV(DigitsValue(Replace(string, <<"-">>, <<>>), 1, 0)))
    ELSE Err("ValueError")

unify_number(string) ==
    IF Len(string) = 0 THEN Err("IndexError")
    ELSE IF \/ Contains(Lower(Replace(string, <<"-">>, <<>>)), <<"i", "n", "f">>)
            \/ Contains(string, <<cINF>>)
    THEN Ok(InfV(IF string[1] = "-" THEN -1 ELSE 1))
    ELSE IF IsDecimalLiteral(Replace(string, <<"-">>, <<>>))
    THEN Ok(IntV((IF string[1] = "-" THEN -1 ELSE 1)
                 * DigitsValue(Replace(string, <<"-">>, <<>>), 1, 0)))
    ELSE Err("ValueError")

\* range2tuple(range, numeric=True): the bounds are converted (lines 426-427)
\* after the three elements are taken (lines 414-418) and before the bracket
\* pair is looked up (line 428)
range2tuple_numeric(range) ==
    LET range_list == Split(clean_formula(range), ",")
    IN  IF Len(range_list) # 2 THEN Err("AssertionError")
        ELSE IF Len(range_list[1]) = 0 \/ Len(range_list[2]) = 0 THEN Err("IndexError")
        ELSE LET first == range_list[1]
                 second == range_list[2]
                 lower == unify_number(Tail(first))
                 upper == unify_number(SubSeq(second, 1, Len(second) - 1))
                 inclusive == inclusive_dict(<<first[1], second[Len(second)]>>)
             IN  IF ~lower.ok THEN lower
                 ELSE IF ~upper.ok THEN upper
                 ELSE IF ~inclusive.ok THEN inclusive
                 ELSE Ok([lower |-> lower.val, upper |-> upper.val,
                          inclusive |-> inclusive.val])

\* bounds that are not plain ascending decimal literals
NumericRangeTexts ==
    {<<"[", "2", ",", "1", ")">>, <<"[", "9", ",", "1", "0", "]">>,
     <<"(", "-", cINF, ",", "1", ")">>, <<"[", "1", ",", "+", cINF, ")">>,
     <<"(", "-", "I", "n", "f", ",", "i", "n", "f", ")">>,
     <<"(", "a", ",", "2", ")">>, <<"(", "1", ",", "a", ")">>, <<"a", ",", "2">>,
     <<"(", "-", ",", "2", ")">>, <<"(", "0", "1", ",", "2", ")">>,
     <<"(", "0", "0", ",", "2", ")">>, <<"(", "1", "-", "2", ",", "3", "0", ")">>,
     <<"[", " ", "-", "2", ",", " ", "-", "1", " ", "]">>}

Call_range2tuple_numeric ==
    /\ op = "idle"
    /\ \E range \in BracketGroups \cup OtherRangeTexts \cup NumericRangeTexts :
         /\ arg' = [range |-> range]
         /\ ret' = range2tuple_numeric(range)
    /\ op' = "range2tuple_numeric"
    /\ heap' = <<>>

NextCodec == Call_range2tuple_numeric \/ Call_config2range

SpecCodec == Init /\ [][NextCodec]_vars

(***************************************************************************)
(* gen_concat_formula.  An element of a group is a str or None (a missing  *)
(* element); the function returns a str or np.nan.                         *)
(***************************************************************************)
\* np.nan
NanV == [t |-> "nan", n |-> 0, s |-> <<>>]

\* the set the elements of a group are intersected with (line 548)
ConcatSentinels == {<<>>, <<"-">>, <<"n", "a", "n">>, <<"N", "a", "N">>,
                    <<"N", "A", "N">>, <<"N", "o", "n", "e">>}

\* the filter of line 548: no element of g is in the set, and pd.Series(g) has
\* no null
IsValidGroup(g) ==
    /\ \A i \in 1..Len(g) : ~(g[i].t = "str" /\ g[i].s \in ConcatSentinels)
    /\ \A i \in 1..Len(g) : g[i].t # "none"

\* ''.join(g)
JoinElements(g) == Concat([i \in 1..Len(g) |-> g[i].s])

\* gen_concat_formula with the single formula parenthesised as well
gen_concat_formula_SingleWrapped(groups, operator) ==
    IF Len(SelectSeq(groups, IsValidGroup)) = 0 THEN Ok(NanV)
    ELSE Ok(StrV(<<"(">>
                 \o Join([i \in 1..Len(SelectSeq(groups, IsValidGroup)) |->
                             JoinElements(SelectSeq(groups, IsValidGroup)[i])],
                         <<")">> \o operator \o <<"(">>)
                 \o <<")">>))

gen_concat_formula(groups, operator) ==
    IF Len(SelectSeq(groups, IsValidGroup)) = 0 THEN Ok(NanV)
    ELSE IF Len(SelectSeq(groups, IsValidGroup)) = 1
    THEN Ok(StrV(JoinElements(SelectSeq(groups, IsValidGroup)[1])))
    ELSE Ok(StrV(<<"(">>
                 \o Join([i \in 1..Len(SelectSeq(groups, IsValidGroup)) |->
                             JoinElements(SelectSeq(groups, IsValidGroup)[i])],
                         <<")">> \o operator \o <<"(">>)
                 \o <<")">>))

MaxConcatGroups == 3   \* the longest list of groups

\* groups of elements: complete ones, the empty one, and ones with an empty,
\* a null-looking or a missing element
ConcatGroups ==
    {<<>>,
     <<StrV(<<"a">>), StrV(<<"=">>), StrV(<<"1">>)>>,
     <<StrV(<<"b">>)>>,
     <<StrV(<<"N", "a", "n">>)>>,
     <<StrV(<<>>), StrV(<<"b">>)>>,
     <<StrV(<<"a">>), StrV(<<"-">>)>>,
     <<StrV(<<"n", "a", "n">>)>>,
     <<StrV(<<"b">>), NoneV>>}

ConcatOperators == {<<"&">>, <<" ", "o", "r", " ">>}

Call_gen_concat_formula ==
    /\ op = "idle"
    /\ \E groups \in SeqsUpTo(ConcatGroups, MaxConcatGroups), operator \in ConcatOperators :
         /\ arg' = [groups |-> groups, operator |-> operator]
         /\ ret' = gen_concat_formula(groups, operator)
    /\ op' = "gen_concat_formula"
    /\ heap' = <<>>

NextConcat == Call_gen_concat_formula

SpecConcat == Init /\ [][NextConcat]_vars

(***************************************************************************)
(* process_check_conditions of utils/check_view.py.  Each of the two rule  *)
(* tables holds one row; the subject dictionary is a list of rows          *)
(* (field_virtual_code, field_code).  The order in which the list of a set *)
(* is walked and the order sort_values (quicksort) gives to rows of equal  *)
(* key are not fixed by the code: the call is made with each of them.      *)
(***************************************************************************)
\* parse_fields(formula) on a str, unique = True
parse_fields(formula) ==
    IF _parse_formula(clean_formula(formula)).ok
    THEN _parse_fields(_parse_formula(clean_formula(formula)).val.formula, TRUE)
    ELSE Err(_parse_formula(clean_formula(formula)).err)

\* the lists list(set(fields)) can be, without the keyword (line 57)
OtherwordOrders(fields, keyword) ==
    {w \in [1..Cardinality(fields \ {keyword}) -> fields \ {keyword}] :
        \A i, j \in DOMAIN w : i # j => w[i] # w[j]}

\* f"COALESCE({i}, 0)"
Coalesce(i) == <<"C", "O", "A", "L", "E", "S", "C", "E", "(">> \o i \o <<",", " ", "0", ")">>

\* lines 58-60: every other word replaced by its COALESCE, one after the other
RECURSIVE WrapEach(_, _)
WrapEach(formula, otherword) ==
    IF Len(otherword) = 0 THEN formula
    ELSE WrapEach(Replace(formula, otherword[1], Coalesce(otherword[1])), Tail(otherword))

\* the row orders sort_values(key = length, ascending = False) can give
SortedByCodeLength(subject_dict) ==
    {[i \in 1..Len(subject_dict) |-> subject_dict[p[i]]] :
        p \in {q \in [1..Len(subject_dict) -> 1..Len(subject_dict)] :
                  /\ \A i, j \in DOMAIN q : i # j => q[i] # q[j]
                  /\ \A i, j \in DOMAIN q :
                        i < j => Len(subject_dict[q[i]].field_virtual_code)
                                   >= Len(subject_dict[q[j]].field_virtual_code)}}

\* lines 65-67: the field_code of the first row with this virtual code
FieldCodeOf(subject_dict_sorted, codev) ==
    subject_dict_sorted[CHOOSE i \in 1..Len(subject_dict_sorted) :
        /\ subject_dict_sorted[i].field_virtual_code = codev
        /\ \A j \in 1..(i - 1) : subject_dict_sorted[j].field_virtual_code # codev].field_code

\* lines 63-68 and 77-83: from the k-th row on, every virtual code replaced by
\* its field_code followed by tail, one row after the other
RECURSIVE SubstituteFrom(_, _, _, _)
SubstituteFrom(formula, subject_dict_sorted, k, tail) ==
    IF k > Len(subject_dict_sorted) THEN formula
    ELSE SubstituteFrom(
             Replace(formula, subject_dict_sorted[k].field_virtual_code,
                     FieldCodeOf(subject_dict_sorted,
                                 subject_dict_sorted[k].field_virtual_code) \o tail),
             subject_dict_sorted, k + 1, tail)

\* lines 38-42: the rows of model1 with level 1 or 2
IsChecked(row) == row.model_code = "model1" /\ row.level \in {1, 2}

\* lines 55-70: condition1 of a row of r_check_cross
CrossCondition(row, otherword, subject_dict_sorted) ==
    SubstituteFrom(Replace(WrapEach(row.condition, otherword), <<"=", "=">>, <<"=">>),
                   subject_dict_sorted, 1, <<>>)

\* lines 75-88: condition1 of a row of r_check_important_subject
ImportantCondition(row, subject_dict_sorted) ==
    SubstituteFrom(row.subject_code, subject_dict_sorted, 1, <<"<", ">", "0">>)

\* the two tables returned: the rows kept, each with its condition1
process_check_conditions(cross, important, otherword, subject_dict_sorted) ==
    IF IsChecked(cross) /\ ~parse_fields(cross.condition).ok
    THEN Err(parse_fields(cross.condition).err)
    ELSE Ok([r_check_cross |->
                 IF IsChecked(cross)
                 THEN <<[row |-> cross,
                         condition1 |-> CrossCondition(cross, otherword, subject_dict_sorted)]>>
                 ELSE <<>>,
             r_check_important_subject |->
                 IF IsChecked(important)
                 THEN <<[row |-> important,
                         condition1 |-> ImportantCondition(important, subject_dict_sorted)]>>
                 ELSE <<>>])

MaxSubjects == 2   \* rows of the subject dictionary

\* virtual codes of which one is the start of another, field codes that
\* hold their virtual code, a field code that is a virtual code, and field
\* codes that hold none
SubjectRows ==
    {[field_virtual_code |-> <<"a">>, field_code |-> <<"f", "a">>],
     [field_virtual_code |-> <<"a", "b">>, field_code |-> <<"f", "a", "b">>],
     [field_virtual_code |-> <<"b">>, field_code |-> <<"x">>],
     [field_virtual_code |-> <<"x">>, field_code |-> <<"z">>],
     [field_virtual_code |-> <<"b", "x">>, field_code |-> <<"y">>]}

CrossRow(condition, keyword, model, level) ==
    [condition |-> condition, keyword_code |-> keyword, model_code |-> model, level |-> level]

CrossConditions ==
    {<<"a", "b", ">", "0">>, <<"a", "=", "=", "b">>, <<"a", "b", "+", "a", ">", "0">>,
     <<"b", " ", ">", " ", "k">>, <<"a", ",", "b">>}

CrossRows ==
    {CrossRow(c, k, "model1", 1) : c \in CrossConditions, k \in {<<"k">>, <<"a">>}}
    \cup {CrossRow(<<"a", "b", ">", "0">>, <<"k">>, "model2", 1),
          CrossRow(<<"a", ",", "b">>, <<"k">>, "model1", 3)}

ImportantRow(subject_code, model, level) ==
    [subject_code |-> subject_code, model_code |-> model, level |-> level]

ImportantRows ==
    {ImportantRow(c, "model1", 2) : c \in {<<"a", "b">>, <<"b", "x", "|", "b">>, <<"a", "b", "|", "a">>}}
    \cup {ImportantRow(<<"a", "b">>, "model1", 3)}

\* the words walked at line 58: none when the row is left out or not parsed
OtherwordsOf(cross) ==
    IF IsChecked(cross) /\ parse_fields(cross.condition).ok
    THEN OtherwordOrders(parse_fields(cross.condition).val.elements, cross.keyword_code)
    ELSE {<<>>}

Call_process_check_conditions ==
    /\ op = "idle"
    /\ \E cross \in CrossRows, important \in ImportantRows,
          subject_dict \in SeqsUpTo(SubjectRows, MaxSubjects) :
         \E otherword \in OtherwordsOf(cross),
            subject_dict_sorted \in SortedByCodeLength(subject_dict) :
           /\ arg' = [r_check_cross |-> cross, r_check_important_subject |-> important,
                      subject_dict |-> subject_dict]
           /\ ret' = process_check_conditions(cross, important, otherword,
                                               subject_dict_sorted)
    /\ op' = "process_check_conditions"
    /\ heap' = <<>>

NextCheckView == Call_process_check_conditions

SpecCheckView == Init /\ [][NextCheckView]_vars

(***************************************************************************)
(* C21: what range2tuple returns and when it fails                         *)
(***************************************************************************)
\* the parts of the normalised text
RangeParts(range) == Split(clean_formula(range), ",")

BracketPairs == {<<"[", "]">>, <<"[", ")">>, <<"(", "]">>, <<"(", ")">>}

InclusivityOf(pair) ==
    CASE pair = <<"[", "]">> -> "both"
      [] pair = <<"[", ")">> -> "left"
      [] pair = <<"(", "]">> -> "right"
      [] pair = <<"(", ")">> -> "neither"

\* the first character of the first part and the last of the second
PairOf(parts) == <<parts[1][1], parts[2][Len(parts[2])]>>

\* the tuple the two parts stand for
TupleOfParts(parts) ==
    [lower |-> Tail(parts[1]),
     upper |-> SubSeq(parts[2], 1, Len(parts[2]) - 1),
     inclusive |-> InclusivityOf(PairOf(parts))]

\* C21 as stated: range2tuple of a text with exactly two comma-separated parts
\* returns the first part without its first character, the second part
\* without its last character and the inclusivity of the (first, last)
\* character pair; a text with another number of parts fails.
C21_TwoPartsReturnTuple ==
    op = "range2tuple" =>
        IF Len(RangeParts(arg.range)) = 2
        THEN /\ ret.ok
             /\ Len(RangeParts(arg.range)[1]) > 0
             /\ Len(RangeParts(arg.range)[2]) > 0
             /\ PairOf(RangeParts(arg.range)) \in BracketPairs
             /\ ret.val = TupleOfParts(RangeParts(arg.range))
        ELSE ret = Err("AssertionError")

\* C21: range2tuple of a text whose normalised form has exactly two
\* comma-separated parts, both non-empty, with a first and a last character
\* that form one of '[]', '[)', '(]', '()', returns the first part without
\* its first character, the second part without its last character and the
\* inclusivity of that pair; with two parts of which one is empty it fails
\* with IndexError, with another character pair with KeyError, and with
\* another number of parts with AssertionError.
C21_BracketedTwoPartsReturnTuple ==
    op = "range2tuple" =>
        LET parts == RangeParts(arg.range)
        IN  IF Len(parts) # 2 THEN ret = Err("AssertionError")
            ELSE IF Len(parts[1]) = 0 \/ Len(parts[2]) = 0 THEN ret = Err("IndexError")
            ELSE IF PairOf(parts) \notin BracketPairs THEN ret = Err("KeyError")
            ELSE ret = Ok(TupleOfParts(parts))

C21_Witness ==
    /\ op = "range2tuple"
    /\ arg.range = <<"(", "-", "2", ",", "-", "1", "]">>
    /\ ret = Ok([lower |-> <<"-", "2">>, upper |-> <<"-", "1">>, inclusive |-> "right"])

(***************************************************************************)
(* C22: rendering and parsing a bounded interval, one after the other      *)
(***************************************************************************)
\* config2range has rendered two numbers as one bounded interval
RenderedInside ==
    /\ op = "config2range"
    /\ Len(arg.thresholds.items) = 2
    /\ \A i \in 1..2 : arg.thresholds.items[i].t = "int"
    /\ Contains(arg.method, Inside)
    /\ ~Contains(arg.method, Outside)

\* the inclusivity a method asks for
MethodInclusivity(method) ==
    IF Contains(method, LeftInclude)
    THEN (IF Contains(method, RightInclude) THEN "both" ELSE "left")
    ELSE (IF Contains(method, RightInclude) THEN "right" ELSE "neither")

\* the 'inside' method that asks for an inclusivity
InsideMethod(inclusive) ==
    CASE inclusive = "both"    -> Inside \o LeftInclude \o RightInclude
      [] inclusive = "left"    -> Inside \o LeftInclude
      [] inclusive = "right"   -> Inside \o RightInclude
      [] inclusive = "neither" -> Inside

\* range2tuple has returned two ints in ascending order
ParsedBounded ==
    /\ op = "range2tuple_numeric"
    /\ ret.ok
    /\ ret.val.lower.t = "int"
    /\ ret.val.upper.t = "int"
    /\ ret.val.lower.n <= ret.val.upper.n

\* the parsed interval rendered again
RenderedAgain ==
    config2range(InsideMethod(ret.val.inclusive),
                 [list |-> TRUE, items |-> <<ret.val.lower, ret.val.upper>>])

\* the parsing of a rendered interval gives the two thresholds in ascending
\* order and the inclusivity of the method
ParsedBackPreserves ==
    RenderedInside =>
        /\ ret.ok
        /\ range2tuple_numeric(ret.val)
              = Ok([lower |-> IntV(Lo(arg.thresholds.items)),
                    upper |-> IntV(Hi(arg.thresholds.items)),
                    inclusive |-> MethodInclusivity(arg.method)])

\* the text of an interval as config2range writes it
IntervalText(tuple) ==
    (IF tuple.inclusive \in {"both", "left"} THEN <<"[">> ELSE <<"(">>)
    \o IntToStr(tuple.lower.n) \o <<",", " ">> \o IntToStr(tuple.upper.n)
    \o (IF tuple.inclusive \in {"both", "right"} THEN <<"]">> ELSE <<")">>)

NumbersRendered ==
    /\ op = "config2range"
    /\ \A i \in 1..Len(arg.thresholds.items) : arg.thresholds.items[i].t = "int"

\* ']' or '[' for a qualifier of the method, the round bracket otherwise
BracketIf(method, qualifier, square, round) ==
    IF Contains(method, qualifier) THEN <<square>> ELSE <<round>>

UnionText(method, lo, hi) ==
    <<"(", "-", cINF, ",", " ">> \o IntToStr(lo) \o BracketIf(method, LeftInclude, "]", ")")
    \o <<"|">> \o BracketIf(method, RightInclude, "[", "(") \o IntToStr(hi)
    \o <<",", " ", "+", cINF, ")">>

BoundedText(method, lo, hi) ==
    BracketIf(method, LeftInclude, "[", "(") \o IntToStr(lo) \o <<",", " ">>
    \o IntToStr(hi) \o BracketIf(method, RightInclude, "]", ")")

\* C23: config2range with two thresholds renders them in ascending order
\* (lo, hi): a method containing the 'outside' word gives the union
\* "(-inf, lo" ']' or ')' "|" '[' or '(' "hi, +inf)", a method containing the
\* 'inside' word gives one bounded interval, square brackets exactly for the
\* 'left include' and 'right include' qualifiers; an unknown method for the
\* number of thresholds, or a number other than 1 or 2, fails.
C23_TwoThresholdsRenderedAsRange ==
    NumbersRendered =>
        LET items == arg.thresholds.items
        IN  IF Len(items) = 2
            THEN IF Contains(arg.method, Outside)
                 THEN ret = Ok(UnionText(arg.method, Lo(items), Hi(items)))
                 ELSE IF Contains(arg.method, Inside)
                 THEN ret = Ok(BoundedText(arg.method, Lo(items), Hi(items)))
                 ELSE ret = Err("ValueError")
            ELSE IF Len(items) = 1
            THEN (arg.method \notin SingleMethods => ret = Err("ValueError"))
            ELSE ret = Err("AssertionError")

C23_Witness ==
    /\ op = "config2range"
    /\ arg.method = Outside \o LeftInclude
    /\ arg.thresholds.items = <<IntV(9), IntV(1)>>
    /\ ret = Ok(<<"(", "-", cINF, ",", " ", "1", "]", "|", "(", "9", ",", " ", "+", cINF, ")">>)

(***************************************************************************)
(* C24: what gen_concat_formula keeps and how it joins it                  *)
(***************************************************************************)
\* the group has an empty or null-looking element, or a missing one
IsDiscarded(g) ==
    \E i \in 1..Len(g) :
        \/ g[i] = NoneV
        \/ g[i].t = "str" /\ g[i].s \in ConcatSentinels

KeptGroups(groups) == {i \in 1..Len(groups) : ~IsDiscarded(groups[i])}

\* the kept groups from the i-th on, each in parentheses, the operator
\* between neighbours
RECURSIVE WrappedFrom(_, _, _)
WrappedFrom(groups, operator, i) ==
    IF i > Len(groups) THEN <<>>
    ELSE IF IsDiscarded(groups[i]) THEN WrappedFrom(groups, operator, i + 1)
    ELSE <<"(">> \o JoinElements(groups[i]) \o <<")">>
         \o (IF \E j \in KeptGroups(groups) : j > i THEN operator ELSE <<>>)
         \o WrappedFrom(groups, operator, i + 1)

\* C24: gen_concat_formula discards every group with an element equal to '',
\* '-', 'nan', 'NaN', 'NAN' or 'None' or with a missing element; with no
\* group left it returns np.nan, with one group left that group's elements
\* concatenated, without parentheses, and with two or more each group's
\* concatenation in parentheses, in the order given, the operator between
\* neighbours.
C24_ValidGroupsJoined ==
    op = "gen_concat_formula" =>
        IF KeptGroups(arg.groups) = {} THEN ret = Ok(NanV)
        ELSE IF Cardinality(KeptGroups(arg.groups)) = 1
        THEN ret = Ok(StrV(JoinElements(
                 arg.groups[CHOOSE i \in KeptGroups(arg.groups) : TRUE])))
        ELSE ret = Ok(StrV(WrappedFrom(arg.groups, arg.operator, 1)))

C24_Witness ==
    /\ op = "gen_concat_formula"
    /\ arg.groups = << <<StrV(<<"a">>), StrV(<<"=">>), StrV(<<"1">>)>>,
                       <<StrV(<<>>), StrV(<<"b">>)>>,
                       <<StrV(<<"b">>)>> >>
    /\ arg.operator = <<"&">>
    /\ ret = Ok(StrV(<<"(", "a", "=", "1", ")", "&", "(", "b", ")">>))

(***************************************************************************)
(* C25: the substitution of the virtual codes in process_check_conditions  *)
(***************************************************************************)
\* the virtual codes of the dictionary that start at position i of the text
CodesAt(text, i, subject_dict) ==
    {k \in 1..Len(subject_dict) : MatchAt(text, subject_dict[k].field_virtual_code, i)}

\* the text with every occurrence of a virtual code replaced, in one pass
\* from the left, by the field_code of the longest virtual code that starts
\* there, followed by tail
RECURSIVE SubstitutedAtOnce(_, _, _, _)
SubstitutedAtOnce(text, i, subject_dict, tail) ==
    IF i > Len(text) THEN <<>>
    ELSE IF CodesAt(text, i, subject_dict) = {}
    THEN <<text[i]>> \o SubstitutedAtOnce(text, i + 1, subject_dict, tail)
    ELSE LET k == CHOOSE c \in CodesAt(text, i, subject_dict) :
                      \A d \in CodesAt(text, i, subject_dict) :
                          Len(subject_dict[c].field_virtual_code)
                            >= Len(subject_dict[d].field_virtual_code)
         IN  subject_dict[k].field_code \o tail
             \o SubstitutedAtOnce(text, i + Len(subject_dict[k].field_virtual_code),
                                   subject_dict, tail)

IsSeparator(c) == c = " " \/ \E k \in DOMAIN stop_symbol : stop_symbol[k] = c

\* where the word that starts at position i ends
RECURSIVE WordEnd(_, _)
WordEnd(text, i) ==
    IF i > Len(text) \/ IsSeparator(text[i]) THEN i - 1 ELSE WordEnd(text, i + 1)

\* the condition from position i on, word by word: the codes of a word
\* replaced at once, and the word wrapped in COALESCE when it is a field
\* other than the keyword
RECURSIVE WrappedAndSubstituted(_, _, _, _)
WrappedAndSubstituted(text, i, keyword, subject_dict) ==
    IF i > Len(text) THEN <<>>
    ELSE IF IsSeparator(text[i])
    THEN <<text[i]>> \o WrappedAndSubstituted(text, i + 1, keyword, subject_dict)
    ELSE LET word == SubSeq(text, i, WordEnd(text, i))
             physical == SubstitutedAtOnce(word, 1, subject_dict, <<>>)
         IN  (IF IsDropped(word) \/ word = keyword THEN physical ELSE Coalesce(physical))
             \o WrappedAndSubstituted(text, WordEnd(text, i) + 1, keyword, subject_dict)

ConditionsReturned == op = "process_check_conditions" /\ ret.ok

\* C25 as stated: the condition1 of every rule is its text (the condition
\* after the COALESCE wrapping, the subject code) with every occurrence of a
\* virtual code replaced by the field_code of exactly that virtual code, the
\* longest one that occurs there: no replacement rewrites the text an
\* earlier replacement produced.
C25_EveryCodeReplacedByItsFieldCode ==
    ConditionsReturned =>
        /\ \A i \in DOMAIN ret.val.r_check_cross :
              \E otherword \in OtherwordsOf(arg.r_check_cross) :
                ret.val.r_check_cross[i].condition1
                  = SubstitutedAtOnce(
                        Replace(WrapEach(arg.r_check_cross.condition, otherword),
                                <<"=", "=">>, <<"=">>),
                        1, arg.subject_dict, <<>>)
        /\ \A i \in DOMAIN ret.val.r_check_important_subject :
              ret.val.r_check_important_subject[i].condition1
                = SubstitutedAtOnce(arg.r_check_important_subject.subject_code, 1,
                                    arg.subject_dict, <<"<", ">", "0">>)

\* the same read from the condition as it was given: every field other than
\* the keyword is wrapped once, as a whole, and its codes are replaced
C25_FieldsWrappedWhole ==
    ConditionsReturned =>
        \A i \in DOMAIN ret.val.r_check_cross :
            ret.val.r_check_cross[i].condition1
              = Replace(WrappedAndSubstituted(arg.r_check_cross.condition, 1,
                                              arg.r_check_cross.keyword_code,
                                              arg.subject_dict),
                        <<"=", "=">>, <<"=">>)

\* no field_code of the dictionary holds a virtual code of the dictionary
FieldCodesHoldNoCode ==
    \A j, k \in 1..Len(arg.subject_dict) :
        ~Contains(arg.subject_dict[j].field_code, arg.subject_dict[k].field_virtual_code)

\* what the order of the rows does give: when no field_code holds a virtual
\* code, the codes are replaced as stated, a shorter code inside a longer one
\* included
C25_LongestCodeFirst ==
    (ConditionsReturned /\ FieldCodesHoldNoCode) =>
        /\ \A i \in DOMAIN ret.val.r_check_cross :
              \E otherword \in OtherwordsOf(arg.r_check_cross) :
                ret.val.r_check_cross[i].condition1
                  = SubstitutedAtOnce(
                        Replace(WrapEach(arg.r_check_cross.condition, otherword),
                                <<"=", "=">>, <<"=">>),
                        1, arg.subject_dict, <<>>)
        /\ \A i \in DOMAIN ret.val.r_check_important_subject :
              ret.val.r_check_important_subject[i].condition1
                = SubstitutedAtOnce(arg.r_check_important_subject.subject_code, 1,
                                    arg.subject_dict, <<"<", ">", "0">>)

(***************************************************************************)
(* Every function modelled here, called once.                              *)
(***************************************************************************)
Next ==
    \/ NextFormula
    \/ NextCompare
    \/ NextRange
    \/ NextFields
    \/ NextShift
    \/ NextClean
    \/ NextTranslateList
    \/ NextCodec
    \/ NextConcat
    \/ NextCheckView

Spec == Init /\ [][Next]_vars

====
